---- MODULE Spec2Model ----
(***************************************************************************)
(* A model of the mini-framework: the virtual-DOM engine (src/src/view.js), *)
(* the event multiplexer and named-event bus (src/unnamed/part_000,        *)
(* imported by view.js as ./eventDelegation.js) and the reactive state     *)
(* bridge (src/src/state.js: createStore, createState, createComponent).   *)
(*                                                                         *)
(* JavaScript values are records tagged by the field k; every kind has its *)
(* own field names.  Objects that JavaScript compares by reference carry a *)
(* ref field: two objects built separately have different refs even when   *)
(* their contents are equal.                                               *)
(***************************************************************************)
EXTENDS Integers, Sequences, FiniteSets, TLC

VARIABLES
    \* the diff specification: the arguments of a call and what it produced
    oldVNode, newVNode, diffPc, diffResult, attrResult, childResult,
    \* the patch specification: a mounted tree A, the next tree B, the host
    patchA, patchB, patchPc, patchHost,
    \* the mount specification: one container, its host children and _currentVNode
    container, mountLog,
    \* the event specification: per element the registry Map and the on<type>
    \* properties, the calls made so far and what the last dispatch invoked
    elements, calls, fired,
    \* the dispatch specification: one element and the run of its master handler
    dispElement, dispatch,
    \* the store specification: one store of createStore and its last call
    store, storeLog,
    \* the bus specification: the customEvents Map, the calls of on made so
    \* far, the target of createState's Proxy and the last call
    customEvents, subscriptions, globalState, busLog,
    \* the component specification: one component of createComponent with
    \* the container it mounts in, and its last call
    component, componentLog,
    \* the delegation specification: the container's registry, the calls of
    \* delegateEvent and registerEvents made so far, and the last call
    delegEl, delegations, registrations, delegLog,
    \* the identity specification: a host parent whose children carry ids, and
    \* the last call of patch on one of them
    hostParent, patchLog,
    \* the throttle specification: the clock, the closure of one
    \* createScrollHandler call with the host's timers, and what happened so far
    clock, throttle, history,
    \* the router specification: the module state of router.js, the
    \* location, the container element and the last call
    router, location, routerHost, routerLog,
    \* the attribute specification: one element and the last call of the
    \* attribute setter or remover on it
    attrEl, attrLog,
    \* the alias specification: the objects of a store, the references the
    \* caller holds and the last call
    aliasStore, aliasRefs, aliasLog,
    \* the to-do application: its reactive state, the debounce record of
    \* toggleTodo and the last call
    todoStore, toggleDebounce, todoLog

diffVars == <<oldVNode, newVNode, diffPc, diffResult, attrResult, childResult>>
patchVars == <<patchA, patchB, patchPc, patchHost>>
mountVars == <<container, mountLog>>
eventVars == <<elements, calls, fired>>
dispatchVars == <<dispElement, dispatch>>
storeVars == <<store, storeLog>>
busVars == <<customEvents, subscriptions, globalState, busLog>>
componentVars == <<component, componentLog>>
delegateVars == <<delegEl, delegations, registrations, delegLog>>
patchAtVars == <<hostParent, patchLog>>
throttleVars == <<clock, throttle, history>>
routerVars == <<router, location, routerHost, routerLog>>
attrVars == <<attrEl, attrLog>>
aliasVars == <<aliasStore, aliasRefs, aliasLog>>
todoVars == <<todoStore, toggleDebounce, todoLog>>
vars ==
    <<diffVars, patchVars, mountVars, eventVars, dispatchVars, storeVars,
      busVars, componentVars, delegateVars, patchAtVars, throttleVars,
      routerVars, attrVars, aliasVars, todoVars>>

(***************************************************************************)
(* Bounds of the model.                                                    *)
(***************************************************************************)
MaxChildren == 2     \* longest child list of a generated tree
MaxCalls == 3        \* attach/detach calls in the event specification
NumHandlers == 2     \* distinct handler functions in the event specification

(***************************************************************************)
(* JavaScript values.                                                      *)
(***************************************************************************)
Undefined == [k |-> "undefined"]
Null == [k |-> "null"]
Str(s) == [k |-> "string", s |-> s]
Num(n) == [k |-> "number", n |-> n]
Bool(b) == [k |-> "boolean", b |-> b]
Obj(ref, props) == [k |-> "object", ref |-> ref, props |-> props]
Fn(ref) == [k |-> "function", ref |-> ref]

\* An attribute mapping is a sequence of entries in insertion order
\* (Object.keys order), with no key twice.
Attr(key, value) == [key |-> key, value |-> value]

\* an array argument, as opposed to a bare value
Arr(items) == [k |-> "array", items |-> items]

\* createElement(tag, attributes, children): a bare child becomes a
\* one-element array
createElement(tag, attributes, children) ==
    [k |-> "vnode", tag |-> tag, attributes |-> attributes,
     children |-> IF children.k = "array" THEN children.items ELSE <<children>>]

\* typeof v
TypeOf(v) ==
    CASE v.k = "undefined" -> "undefined"
      [] v.k = "string" -> "string"
      [] v.k = "number" -> "number"
      [] v.k = "boolean" -> "boolean"
      [] v.k = "function" -> "function"
      [] OTHER -> "object"        \* null, plain objects, virtual nodes

\* a === b: by value for primitives, by reference for objects and functions
StrictEquals(a, b) ==
    IF a.k # b.k THEN FALSE
    ELSE IF a.k \in {"object", "function"} THEN a.ref = b.ref
    ELSE a = b

\* the truthiness of v (what !v, v && ..., v || ... test)
Truthy(v) ==
    CASE v.k = "undefined" -> FALSE
      [] v.k = "null" -> FALSE
      [] v.k = "string" -> v.s # ""
      [] v.k = "number" -> v.n # 0
      [] v.k = "boolean" -> v.b
      [] OTHER -> TRUE

Digit == <<"0", "1", "2", "3", "4", "5", "6", "7", "8", "9">>
RECURSIVE NumberToString(_)
NumberToString(n) ==
    IF n < 10 THEN Digit[n + 1]
    ELSE NumberToString(n \div 10) \o Digit[(n % 10) + 1]

\* String(v), as createTextNode, textContent, setAttribute, className apply it
StringOf(v) ==
    CASE v.k = "string" -> v.s
      [] v.k = "number" -> NumberToString(v.n)
      [] v.k = "boolean" -> IF v.b THEN "true" ELSE "false"
      [] v.k = "undefined" -> "undefined"
      [] v.k = "null" -> "null"
      [] v.k = "function" -> "function"
      [] OTHER -> "[object Object]"

Upper == <<"A", "B", "C", "D", "E", "F", "G", "H", "I", "J", "K", "L", "M",
           "N", "O", "P", "Q", "R", "S", "T", "U", "V", "W", "X", "Y", "Z">>
Lower == <<"a", "b", "c", "d", "e", "f", "g", "h", "i", "j", "k", "l", "m",
           "n", "o", "p", "q", "r", "s", "t", "u", "v", "w", "x", "y", "z">>
LowerMap ==
    [c \in {Upper[i] : i \in 1..26} |-> Lower[CHOOSE i \in 1..26 : Upper[i] = c]]
LowerChar(c) == IF c \in DOMAIN LowerMap THEN LowerMap[c] ELSE c
RECURSIVE toLowerCase(_)
toLowerCase(s) ==
    IF Len(s) = 0 THEN ""
    ELSE LowerChar(SubSeq(s, 1, 1)) \o toLowerCase(SubSeq(s, 2, Len(s)))

startsWith(s, prefix) ==
    Len(s) >= Len(prefix) /\ SubSeq(s, 1, Len(prefix)) = prefix

\* s.slice(n)
slice(s, n) == SubSeq(s, n + 1, Len(s))

(***************************************************************************)
(* Property access on a value that may not be a virtual node.              *)
(***************************************************************************)
\* attrs[key]: undefined when the key is absent
Get(attrs, key) ==
    IF \E i \in 1..Len(attrs) : attrs[i].key = key
    THEN attrs[CHOOSE i \in 1..Len(attrs) : attrs[i].key = key].value
    ELSE Undefined

\* Object.keys(attrs)
Keys(attrs) == [i \in 1..Len(attrs) |-> attrs[i].key]

\* v?.tag
TagOf(v) == IF v.k = "vnode" THEN Str(v.tag) ELSE Undefined
\* v.attributes || {}   (v neither null nor undefined)
AttributesOf(v) == IF v.k = "vnode" THEN v.attributes ELSE <<>>
\* v.children || []
ChildrenOf(v) == IF v.k = "vnode" THEN v.children ELSE <<>>
\* v?.attributes?.key
KeyOf(v) == IF v.k = "vnode" THEN Get(v.attributes, "key") ELSE Undefined
\* reading a property of null or undefined raises a TypeError
Nullish(v) == v.k \in {"undefined", "null"}

(***************************************************************************)
(* The differ: diff, diffAttributes, diffChildren.                         *)
(***************************************************************************)
NONE == [type |-> "NONE"]
REPLACE(v) == [type |-> "REPLACE", newVNode |-> v]
TEXT(v) == [type |-> "TEXT", content |-> v]
UPDATE(a, c) == [type |-> "UPDATE", attributes |-> a, children |-> c]
APPEND_CHILD(v) == [type |-> "APPEND_CHILD", vNode |-> v]
REMOVE_CHILD(i) == [type |-> "REMOVE_CHILD", index |-> i]
SET_ATTRIBUTE(key, value) == [type |-> "SET_ATTRIBUTE", key |-> key, value |-> value]
REMOVE_ATTRIBUTE(key) == [type |-> "REMOVE_ATTRIBUTE", key |-> key]
\* the call did not return: it raised a TypeError
Raised == [type |-> "TypeError"]

booleanAttrs == {"checked", "disabled", "selected"}

\* new Set([...a, ...b]) in iteration order
RECURSIVE Dedupe(_)
Dedupe(s) ==
    IF Len(s) = 0 THEN <<>>
    ELSE LET rest == Dedupe(SubSeq(s, 1, Len(s) - 1))
             last == s[Len(s)]
         IN  IF \E i \in 1..Len(rest) : rest[i] = last THEN rest
             ELSE Append(rest, last)

\* diffAttributes without the boolean-attribute rule
AttributePatchForNoBooleanRule(oldAttrs, newAttrs, key) ==
    LET oldValue == Get(oldAttrs, key)
        newValue == Get(newAttrs, key)
    IN  IF StrictEquals(oldValue, newValue) THEN <<>>
        ELSE IF newValue = Undefined THEN <<REMOVE_ATTRIBUTE(key)>>
        ELSE <<SET_ATTRIBUTE(key, newValue)>>

\* diffAttributes without the skip of equal values
AttributePatchForNoSkip(oldAttrs, newAttrs, key) ==
    LET newValue == Get(newAttrs, key)
    IN  IF newValue = Undefined THEN <<REMOVE_ATTRIBUTE(key)>>
        ELSE IF key \in booleanAttrs /\ ~Truthy(newValue)
             THEN <<REMOVE_ATTRIBUTE(key)>>
        ELSE <<SET_ATTRIBUTE(key, newValue)>>

\* the patch diffAttributes pushes for one key, <<>> when it pushes none
AttributePatchFor(oldAttrs, newAttrs, key) ==
    LET oldValue == Get(oldAttrs, key)
        newValue == Get(newAttrs, key)
    IN  IF StrictEquals(oldValue, newValue) THEN <<>>
        ELSE IF newValue = Undefined THEN <<REMOVE_ATTRIBUTE(key)>>
        ELSE IF key \in booleanAttrs /\ ~Truthy(newValue)
             THEN <<REMOVE_ATTRIBUTE(key)>>
        ELSE <<SET_ATTRIBUTE(key, newValue)>>

RECURSIVE AttributePatches(_, _, _)
AttributePatches(oldAttrs, newAttrs, keys) ==
    IF Len(keys) = 0 THEN <<>>
    ELSE AttributePatchFor(oldAttrs, newAttrs, Head(keys))
         \o AttributePatches(oldAttrs, newAttrs, Tail(keys))

diffAttributes(oldAttrs, newAttrs) ==
    AttributePatches(oldAttrs, newAttrs, Dedupe(Keys(oldAttrs) \o Keys(newAttrs)))

Max(a, b) == IF a >= b THEN a ELSE b

RECURSIVE diff(_, _)
RECURSIVE diffChildrenFrom(_, _, _)

\* the loop of diffChildren from (0-based) index i on; when a recursive diff
\* raises, the loop ends there and the list ends with Raised
diffChildrenFrom(oldChildren, newChildren, i) ==
    IF i >= Max(Len(oldChildren), Len(newChildren)) THEN <<>>
    ELSE LET here ==
               IF i >= Len(oldChildren) THEN APPEND_CHILD(newChildren[i + 1])
               ELSE IF i >= Len(newChildren) THEN REMOVE_CHILD(i)
               ELSE LET oldChild == oldChildren[i + 1]
                        newChild == newChildren[i + 1]
                        oldKey == KeyOf(oldChild)
                        newKey == KeyOf(newChild)
                    IN  IF (Truthy(oldKey) \/ Truthy(newKey))
                           /\ ~StrictEquals(oldKey, newKey)
                        THEN REPLACE(newChild)
                        ELSE diff(oldChild, newChild)
         IN  IF here.type = "TypeError" THEN <<Raised>>
             ELSE <<here>> \o diffChildrenFrom(oldChildren, newChildren, i + 1)

diffChildren(oldChildren, newChildren) ==
    diffChildrenFrom(oldChildren, newChildren, 0)

\* diffChildren did not return
ChildrenRaised(patches) ==
    \E i \in 1..Len(patches) : patches[i].type = "TypeError"

\* diff comparing the types only, not the tags
diffWithoutTagCheck(old, new) ==
    IF TypeOf(old) # TypeOf(new)
    THEN REPLACE(new)
    ELSE IF TypeOf(new) \in {"string", "number"}
    THEN (IF ~StrictEquals(old, new) THEN TEXT(new) ELSE NONE)
    ELSE IF Nullish(old) \/ Nullish(new) THEN Raised
    ELSE LET attributesDiff == diffAttributes(AttributesOf(old), AttributesOf(new))
             childrenDiff == diffChildren(ChildrenOf(old), ChildrenOf(new))
         IN  IF ChildrenRaised(childrenDiff) THEN Raised
             ELSE IF Len(attributesDiff) = 0
                     /\ \A i \in 1..Len(childrenDiff) : childrenDiff[i].type = "NONE"
             THEN NONE
             ELSE UPDATE(attributesDiff, childrenDiff)

\* diff with a text branch that never answers NONE
diffTextAlways(old, new) ==
    IF TypeOf(old) # TypeOf(new)
       \/ (Truthy(TagOf(old)) /\ ~StrictEquals(TagOf(old), TagOf(new)))
    THEN REPLACE(new)
    ELSE IF TypeOf(new) \in {"string", "number"}
    THEN TEXT(new)
    ELSE IF Nullish(old) \/ Nullish(new) THEN Raised
    ELSE LET attributesDiff == diffAttributes(AttributesOf(old), AttributesOf(new))
             childrenDiff == diffChildren(ChildrenOf(old), ChildrenOf(new))
         IN  IF ChildrenRaised(childrenDiff) THEN Raised
             ELSE IF Len(attributesDiff) = 0
                     /\ \A i \in 1..Len(childrenDiff) : childrenDiff[i].type = "NONE"
             THEN NONE
             ELSE UPDATE(attributesDiff, childrenDiff)

diff(old, new) ==
    IF TypeOf(old) # TypeOf(new)
       \/ (Truthy(TagOf(old)) /\ ~StrictEquals(TagOf(old), TagOf(new)))
    THEN REPLACE(new)
    ELSE IF TypeOf(new) \in {"string", "number"}
    THEN (IF ~StrictEquals(old, new) THEN TEXT(new) ELSE NONE)
    ELSE IF Nullish(old) \/ Nullish(new) THEN Raised
    ELSE LET attributesDiff == diffAttributes(AttributesOf(old), AttributesOf(new))
             childrenDiff == diffChildren(ChildrenOf(old), ChildrenOf(new))
         IN  IF ChildrenRaised(childrenDiff) THEN Raised
             ELSE IF Len(attributesDiff) = 0
                     /\ \A i \in 1..Len(childrenDiff) : childrenDiff[i].type = "NONE"
             THEN NONE
             ELSE UPDATE(attributesDiff, childrenDiff)

(***************************************************************************)
(* The event multiplexer's core: attachEventHandler, removeEventHandler.   *)
(* An element carries its entry of the elementHandlers WeakMap (has: the   *)
(* WeakMap holds a Map for it; handlers: that Map, event type -> handlers  *)
(* in insertion order) and its on<type> properties (on: property name ->   *)
(* the event type whose master handler is installed; null when absent).    *)
(***************************************************************************)
Without(f, key) == [x \in DOMAIN f \ {key} |-> f[x]]
With(f, key, value) == (key :> value) @@ f

\* Set.add
SetAdd(s, x) == IF \E i \in 1..Len(s) : s[i] = x THEN s ELSE Append(s, x)
\* Set.delete
SetDelete(s, x) == SelectSeq(s, LAMBDA y : y # x)

attachEventHandler(element, eventType, handler) ==
    LET propName == "on" \o toLowerCase(eventType)
        first == eventType \notin DOMAIN element.handlers
        handlers == IF first THEN With(element.handlers, eventType, <<>>)
                    ELSE element.handlers
    IN  [element EXCEPT
            !.has = TRUE,
            !.on = IF first THEN With(@, propName, eventType) ELSE @,
            !.handlers = With(handlers, eventType, SetAdd(handlers[eventType], handler))]

removeEventHandlerKeepListener(element, eventType, handler) ==
    IF ~element.has THEN element
    ELSE IF eventType \notin DOMAIN element.handlers THEN element
    ELSE LET eventHandlers == SetDelete(element.handlers[eventType], handler)
         IN  IF Len(eventHandlers) = 0
             THEN [element EXCEPT !.handlers = Without(@, eventType)]
             ELSE [element EXCEPT !.handlers = With(@, eventType, eventHandlers)]

removeEventHandler(element, eventType, handler) ==
    IF ~element.has THEN element
    ELSE IF eventType \notin DOMAIN element.handlers THEN element
    ELSE LET eventHandlers == SetDelete(element.handlers[eventType], handler)
         IN  IF Len(eventHandlers) = 0
             THEN [element EXCEPT
                      !.on = Without(@, "on" \o toLowerCase(eventType)),
                      !.handlers = Without(@, eventType)]
             ELSE [element EXCEPT !.handlers = With(@, eventType, eventHandlers)]

\* what calling element[propName](event) invokes, in order: the master
\* handler installed there iterates the handler set of its own event type
MasterInvokes(element, propName) ==
    IF propName \notin DOMAIN element.on THEN <<>>
    ELSE IF element.on[propName] \in DOMAIN element.handlers
         THEN element.handlers[element.on[propName]]
         ELSE <<>>

(***************************************************************************)
(* The host tree.  A text node holds its data; an element holds its local  *)
(* name, class, inline style, dataset, content attributes, the input state *)
(* (checked, value), the _eventHandlers record view.js keeps on it, its    *)
(* event registry and its child nodes.                                     *)
(***************************************************************************)
createTextNode(v) == [nodeType |-> "text", data |-> StringOf(v)]

documentCreateElement(tag) ==
    [nodeType |-> "element", localName |-> toLowerCase(tag),
     className |-> "", style |-> <<>>, dataset |-> <<>>, attributes |-> <<>>,
     checked |-> FALSE, value |-> "",
     eventHandlers |-> <<>>, has |-> FALSE, handlers |-> <<>>, on |-> <<>>,
     childNodes |-> <<>>]

\* key in element, for the generic keys of the model
InElement(element, key) ==
    \/ key = "id"
    \/ element.localName = "input" /\ key \in {"checked", "value", "disabled"}

\* element.setAttribute(key, value)
setAttribute(element, key, value) ==
    [element EXCEPT !.attributes = With(@, key, StringOf(value))]

\* element.removeAttribute(key)
removeAttribute(element, key) ==
    IF key = "style" THEN [element EXCEPT !.style = <<>>]
    ELSE IF key = "class" THEN [element EXCEPT !.className = ""]
    ELSE [element EXCEPT !.attributes = Without(@, key)]

\* element[key] = value for a key with key in element: id reflects the
\* content attribute, disabled reflects its presence, checked and value are
\* state of the input
setProperty(element, key, value) ==
    CASE key = "id" -> setAttribute(element, "id", value)
      [] key = "disabled" ->
            IF Truthy(value) THEN setAttribute(element, "disabled", Str(""))
            ELSE removeAttribute(element, "disabled")
      [] key = "checked" -> [element EXCEPT !.checked = Truthy(value)]
      [] key = "value" -> [element EXCEPT !.value = StringOf(value)]
      [] OTHER -> element

\* Object.assign(target, source) with every value written as a string
AssignStrings(target, props) ==
    [x \in DOMAIN props |-> StringOf(props[x])] @@ target

setElementAttributeStyleReplace(element, key, value) ==
    IF key = "className" THEN [element EXCEPT !.className = StringOf(value)]
    ELSE IF key = "style" /\ TypeOf(value) = "object"
    THEN [element EXCEPT !.style = AssignStrings(<<>>, value.props)]
    ELSE IF key = "data" /\ TypeOf(value) = "object"
    THEN [element EXCEPT !.dataset = AssignStrings(@, value.props)]
    ELSE IF startsWith(key, "on") /\ TypeOf(value) = "function"
    THEN LET eventType == toLowerCase(slice(key, 2))
             cleaned == IF eventType \in DOMAIN element.eventHandlers
                        THEN removeEventHandler(element, eventType,
                                                element.eventHandlers[eventType])
                        ELSE element
             attached == attachEventHandler(cleaned, eventType, value)
         IN  [attached EXCEPT !.eventHandlers = With(@, eventType, value)]
    ELSE LET assigned == IF InElement(element, key)
                         THEN setProperty(element, key, value)
                         ELSE element
         IN  setAttribute(assigned, key, value)

setElementAttributeNoCleanup(element, key, value) ==
    IF key = "className" THEN [element EXCEPT !.className = StringOf(value)]
    ELSE IF key = "style" /\ TypeOf(value) = "object"
    THEN [element EXCEPT !.style = AssignStrings(@, value.props)]
    ELSE IF key = "data" /\ TypeOf(value) = "object"
    THEN [element EXCEPT !.dataset = AssignStrings(@, value.props)]
    ELSE IF startsWith(key, "on") /\ TypeOf(value) = "function"
    THEN LET eventType == toLowerCase(slice(key, 2))
             cleaned == IF eventType \in DOMAIN element.eventHandlers
                        THEN removeEventHandler(element, eventType,
                                                element.eventHandlers[eventType])
                        ELSE element
             attached == attachEventHandler(element, eventType, value)
         IN  [attached EXCEPT !.eventHandlers = With(@, eventType, value)]
    ELSE LET assigned == IF InElement(element, key)
                         THEN setProperty(element, key, value)
                         ELSE element
         IN  setAttribute(assigned, key, value)

\* setElementAttribute(element, key, value)
setElementAttribute(element, key, value) ==
    IF key = "className" THEN [element EXCEPT !.className = StringOf(value)]
    ELSE IF key = "style" /\ TypeOf(value) = "object"
    THEN [element EXCEPT !.style = AssignStrings(@, value.props)]
    ELSE IF key = "data" /\ TypeOf(value) = "object"
    THEN [element EXCEPT !.dataset = AssignStrings(@, value.props)]
    ELSE IF startsWith(key, "on") /\ TypeOf(value) = "function"
    THEN LET eventType == toLowerCase(slice(key, 2))
             cleaned == IF eventType \in DOMAIN element.eventHandlers
                        THEN removeEventHandler(element, eventType,
                                                element.eventHandlers[eventType])
                        ELSE element
             attached == attachEventHandler(cleaned, eventType, value)
         IN  [attached EXCEPT !.eventHandlers = With(@, eventType, value)]
    ELSE LET assigned == IF InElement(element, key)
                         THEN setProperty(element, key, value)
                         ELSE element
         IN  setAttribute(assigned, key, value)

removeElementAttribute(element, key) ==
    IF key = "className" THEN [element EXCEPT !.className = ""]
    ELSE IF key = "style" THEN removeAttribute(element, "style")
    ELSE IF startsWith(key, "on")
    THEN LET eventType == toLowerCase(slice(key, 2))
         IN  IF eventType \in DOMAIN element.eventHandlers
             THEN [removeEventHandler(element, eventType,
                                      element.eventHandlers[eventType])
                      EXCEPT !.eventHandlers = Without(@, eventType)]
             ELSE element
    ELSE LET reset == IF InElement(element, key)
                      THEN setProperty(element, key,
                              IF element.localName = "input" /\ key = "value"
                              THEN Str("") ELSE Bool(FALSE))
                      ELSE element
         IN  removeAttribute(reset, key)

RECURSIVE SetAttributes(_, _)
SetAttributes(element, entries) ==
    IF Len(entries) = 0 THEN element
    ELSE SetAttributes(
             setElementAttribute(element, Head(entries).key, Head(entries).value),
             Tail(entries))

\* render(vElement), for a string, a number or a virtual node
RECURSIVE render(_)
render(vElement) ==
    IF TypeOf(vElement) \in {"string", "number"} THEN createTextNode(vElement)
    ELSE LET element == SetAttributes(documentCreateElement(vElement.tag),
                                      vElement.attributes)
         IN  [element EXCEPT
                !.childNodes = [i \in 1..Len(vElement.children) |->
                                   render(vElement.children[i])]]

(***************************************************************************)
(* The patcher: patch and applyChildrenPatches.                            *)
(***************************************************************************)
\* node.textContent = content
setTextContent(node, content) ==
    IF node.nodeType = "text" THEN [node EXCEPT !.data = StringOf(content)]
    ELSE [node EXCEPT !.childNodes =
             IF StringOf(content) = "" THEN <<>> ELSE <<createTextNode(content)>>]

RECURSIVE ApplyAttributePatches(_, _)
ApplyAttributePatches(domNode, patches) ==
    IF Len(patches) = 0 THEN domNode
    ELSE LET p == Head(patches)
             next == IF p.type = "SET_ATTRIBUTE"
                     THEN setElementAttribute(domNode, p.key, p.value)
                     ELSE IF p.type = "REMOVE_ATTRIBUTE"
                     THEN removeElementAttribute(domNode, p.key)
                     ELSE domNode
         IN  ApplyAttributePatches(next, Tail(patches))

\* the three lists applyChildrenPatches sorts the patches into
Updates(childrenPatches) ==
    SelectSeq([i \in 1..Len(childrenPatches) |->
                  [patch |-> childrenPatches[i], index |-> i - 1]],
              LAMBDA u : u.patch.type \notin {"NONE", "APPEND_CHILD", "REMOVE_CHILD"})
Appends(childrenPatches) ==
    SelectSeq(childrenPatches, LAMBDA p : p.type = "APPEND_CHILD")
Removals(childrenPatches) ==
    LET r == SelectSeq(childrenPatches, LAMBDA p : p.type = "REMOVE_CHILD")
    IN  [i \in 1..Len(r) |-> r[i].index]

\* indices.sort((a, b) => b - a)
RECURSIVE SortDescending(_)
SortDescending(indices) ==
    IF Len(indices) = 0 THEN <<>>
    ELSE LET m == CHOOSE i \in 1..Len(indices) :
                     \A j \in 1..Len(indices) : indices[i] >= indices[j]
         IN  <<indices[m]>>
             \o SortDescending(SubSeq(indices, 1, m - 1)
                               \o SubSeq(indices, m + 1, Len(indices)))

\* domNode.removeChild(domNode.childNodes[index]) when that child exists
RemoveChildAt(childNodes, index) ==
    IF index + 1 \in 1..Len(childNodes)
    THEN SubSeq(childNodes, 1, index) \o SubSeq(childNodes, index + 2, Len(childNodes))
    ELSE childNodes

RECURSIVE ApplyRemovals(_, _)
ApplyRemovals(childNodes, indices) ==
    IF Len(indices) = 0 THEN childNodes
    ELSE ApplyRemovals(RemoveChildAt(childNodes, Head(indices)), Tail(indices))

RECURSIVE patch(_, _, _)
RECURSIVE ApplyUpdates(_, _)

\* the updates loop: patch(targetNode, patchObj) on the child at the patch's
\* own index, when there is one; a REPLACE puts the new node in its place
ApplyUpdates(childNodes, updates) ==
    IF Len(updates) = 0 THEN childNodes
    ELSE LET u == Head(updates)
             next == IF u.index + 1 \in 1..Len(childNodes)
                     THEN [childNodes EXCEPT
                              ![u.index + 1] = patch(@, u.patch, TRUE)]
                     ELSE childNodes
         IN  ApplyUpdates(next, Tail(updates))

RemovalOrderAsPushed(indices) == indices

\* operations.removals.sort((a, b) => b - a)
RemovalOrder(indices) == SortDescending(indices)

applyChildrenPatches(domNode, childrenPatches) ==
    IF Len(childrenPatches) = 0 THEN domNode
    ELSE LET updated == ApplyUpdates(domNode.childNodes, Updates(childrenPatches))
             appends == Appends(childrenPatches)
             appended == updated \o [i \in 1..Len(appends) |-> render(appends[i].vNode)]
             removed == ApplyRemovals(appended,
                                      RemovalOrder(Removals(childrenPatches)))
         IN  [domNode EXCEPT !.childNodes = removed]

\* patch(domNode, patches): the node at domNode's position afterwards.
\* hasParent tells whether domNode.parentNode is a node; replaceChild on a
\* null parentNode raises a TypeError.
patch(domNode, patches, hasParent) ==
    IF patches.type = "NONE" THEN domNode
    ELSE IF patches.type = "REPLACE"
    THEN (IF hasParent THEN render(patches.newVNode) ELSE Raised)
    ELSE IF patches.type = "TEXT" THEN setTextContent(domNode, patches.content)
    ELSE IF patches.type = "UPDATE"
    THEN applyChildrenPatches(ApplyAttributePatches(domNode, patches.attributes),
                              patches.children)
    ELSE domNode

(***************************************************************************)
(* The virtual trees the specifications draw their inputs from.            *)
(***************************************************************************)
\* style and data mappings; refs 1 and 2 are two mappings built separately
\* with the same content
StyleRed1 == Obj(1, [color |-> Str("red")])
StyleRed2 == Obj(2, [color |-> Str("red")])
StyleBlue == Obj(3, [background |-> Str("blue")])
DataId == Obj(4, [id |-> Num(7)])

AttributeMaps ==
    { <<>>,
      <<Attr("key", Num(0))>>, <<Attr("key", Str("a"))>>, <<Attr("key", Str("b"))>>,
      <<Attr("checked", Bool(TRUE))>>, <<Attr("checked", Bool(FALSE))>>,
      <<Attr("disabled", Num(0))>>, <<Attr("disabled", Str("yes"))>>,
      <<Attr("selected", Str(""))>>, <<Attr("selected", Null)>>,
      <<Attr("style", StyleRed1)>>, <<Attr("style", StyleRed2)>>,
      <<Attr("style", StyleBlue)>>, <<Attr("data", DataId)>>,
      <<Attr("className", Str("x"))>>,
      <<Attr("onClick", Fn(1))>>, <<Attr("onClick", Fn(2))>>,
      <<Attr("className", Str("x")), Attr("id", Str("y"))>>,
      <<Attr("id", Str("y")), Attr("className", Str("z"))>> }

Leaves == {Str("a"), Str("1"), Num(1), Num(2)}

\* nodes without children, one per tag and attribute mapping
AttributeNodes ==
    {createElement(tag, a, Arr(<<>>)) : tag \in {"div", "input"}, a \in AttributeMaps}

\* list items, with and without a key, built with a bare text child
Items ==
    {createElement("li", a, Str("a")) :
        a \in {<<>>, <<Attr("key", Num(0))>>, <<Attr("key", Str("a"))>>,
               <<Attr("key", Str("b"))>>}}

Kids == Items \cup {Str("a")}

RECURSIVE SeqsUpTo(_, _)
SeqsUpTo(S, n) ==
    IF n = 0 THEN {<<>>}
    ELSE LET shorter == SeqsUpTo(S, n - 1)
         IN  shorter \cup {Append(q, x) : q \in shorter, x \in S}

\* lists of up to MaxChildren children
ListNodes ==
    {createElement("ul", <<>>, Arr(c)) : c \in SeqsUpTo(Kids, MaxChildren)}

VNodes == AttributeNodes \cup ListNodes \cup Items
DiffInputs == VNodes \cup Leaves \cup {Null, Undefined}

(***************************************************************************)
(* The diff specification: one call of diff, diffAttributes or             *)
(* diffChildren on a pair of inputs.                                       *)
(***************************************************************************)
NoValue == [k |-> "none"]

DiffIdle ==
    /\ oldVNode = NoValue /\ newVNode = NoValue /\ diffPc = "idle"
    /\ diffResult = NoValue /\ attrResult = <<>> /\ childResult = <<>>

DiffStart ==
    /\ oldVNode \in DiffInputs
    /\ newVNode \in DiffInputs
    /\ diffPc = "ready"
    /\ diffResult = NoValue /\ attrResult = <<>> /\ childResult = <<>>

CallDiff ==
    /\ diffPc = "ready"
    /\ diffResult' = diff(oldVNode, newVNode)
    /\ diffPc' = "diff"
    /\ UNCHANGED <<oldVNode, newVNode, attrResult, childResult>>

CallDiffAttributes ==
    /\ diffPc = "ready"
    /\ oldVNode.k = "vnode" /\ newVNode.k = "vnode"
    /\ attrResult' = diffAttributes(oldVNode.attributes, newVNode.attributes)
    /\ diffPc' = "diffAttributes"
    /\ UNCHANGED <<oldVNode, newVNode, diffResult, childResult>>

CallDiffChildren ==
    /\ diffPc = "ready"
    /\ oldVNode.k = "vnode" /\ newVNode.k = "vnode"
    /\ childResult' = diffChildren(oldVNode.children, newVNode.children)
    /\ diffPc' = "diffChildren"
    /\ UNCHANGED <<oldVNode, newVNode, diffResult, attrResult>>

DiffNext == CallDiff \/ CallDiffAttributes \/ CallDiffChildren

(***************************************************************************)
(* The patch specification: render(A), then patch(render(A), diff(A, B)).  *)
(* The rendered root is either left detached or appended to a parent.      *)
(***************************************************************************)
PatchKids ==
    {Str("a"), createElement("li", <<>>, Str("a")),
     createElement("li", <<Attr("key", Str("a"))>>, Str("b"))}

PatchInputs ==
    AttributeNodes \cup Items \cup Leaves
    \cup {createElement("ul", <<>>, Arr(c)) : c \in SeqsUpTo(PatchKids, MaxChildren)}

PatchIdle ==
    patchA = NoValue /\ patchB = NoValue /\ patchPc = "idle" /\ patchHost = NoValue

PatchStart ==
    /\ patchA \in PatchInputs
    /\ patchB \in PatchInputs
    /\ patchPc = "start"
    /\ patchHost = NoValue

RenderA ==
    /\ patchPc = "start"
    /\ \E hasParent \in BOOLEAN :
          patchHost' = [node |-> render(patchA), hasParent |-> hasParent,
                        patches |-> NoValue]
    /\ patchPc' = "rendered"
    /\ UNCHANGED <<patchA, patchB>>

PatchAB ==
    /\ patchPc = "rendered"
    /\ LET patches == diff(patchA, patchB)
       IN  patchHost' = [patchHost EXCEPT
                            !.node = patch(@, patches, patchHost.hasParent),
                            !.patches = patches]
    /\ patchPc' = "patched"
    /\ UNCHANGED <<patchA, patchB>>

PatchNext == RenderA \/ PatchAB

(***************************************************************************)
(* The mount specification: appendTo on one container.                     *)
(***************************************************************************)
\* appendTo that renders and appends on every call
appendToAlwaysInitial(vElement, c) ==
    [c EXCEPT !.childNodes = Append(@, render(vElement)),
              !.currentVNode = vElement]

\* appendTo(vElement, container) for a container that was found: the
\* container afterwards
appendTo(vElement, c) ==
    IF ~Truthy(c.currentVNode)
    THEN [c EXCEPT !.childNodes = Append(@, render(vElement)),
                   !.currentVNode = vElement]
    ELSE LET patches == diff(c.currentVNode, vElement)
         IN  [c EXCEPT
                !.childNodes = IF Len(@) > 0
                               THEN [@ EXCEPT ![1] = patch(@, patches, TRUE)]
                               ELSE @,
                !.currentVNode = vElement]

MountKids ==
    {Str("a"), createElement("li", <<Attr("onClick", Fn(1))>>, Str("b"))}

MountInputs ==
    {createElement("ul", a, Arr(c)) :
        a \in {<<>>, <<Attr("style", StyleRed1), Attr("onClick", Fn(2))>>},
        c \in SeqsUpTo(MountKids, MaxChildren)}

MountIdle ==
    /\ container = NoValue
    /\ mountLog = NoValue

MountStart ==
    /\ container = [currentVNode |-> Undefined, childNodes |-> <<>>]
    /\ mountLog = [nth |-> 0, outcome |-> "none", prev |-> Undefined,
                   patches |-> NoValue]

\* the number of completed appendTo calls, counted up to "more than two"
Counted(n) == IF n < 3 THEN n + 1 ELSE n

AppendTo ==
    /\ mountLog # NoValue
    /\ \E vElement \in MountInputs :
          /\ container' = appendTo(vElement, container)
          /\ mountLog' = [nth |-> Counted(mountLog.nth), outcome |-> "returned",
                          prev |-> container.currentVNode,
                          patches |-> IF Truthy(container.currentVNode)
                                      THEN diff(container.currentVNode, vElement)
                                      ELSE NoValue]

\* the container is a selector no element matches: querySelector yields
\* null and appendTo raises Error('Container not found')
AppendToMissing ==
    /\ mountLog # NoValue
    /\ mountLog.outcome # "Error"
    /\ mountLog' = [mountLog EXCEPT !.outcome = "Error"]
    /\ UNCHANGED container

MountNext == AppendTo \/ AppendToMissing

(***************************************************************************)
(* The event specification: attachEventHandler and removeEventHandler      *)
(* called on a few elements, and events fired on them.                     *)
(***************************************************************************)
ElementIds == {"e1", "e2"}
EventTypes == {"click", "Click", "keydown"}
Handlers == {Fn(i) : i \in 1..NumHandlers}
PropNames == {"on" \o toLowerCase(t) : t \in EventTypes}

NoCalls == [t \in EventTypes |-> [h \in Handlers |-> 0]]

EventIdle ==
    elements = NoValue /\ calls = NoValue /\ fired = NoValue

EventStart ==
    /\ elements = [e \in ElementIds |-> [has |-> FALSE, handlers |-> <<>>, on |-> <<>>]]
    /\ calls = [n |-> 0,
                pending |-> [e \in ElementIds |-> NoCalls],
                repeated |-> [e \in ElementIds |-> {}],
                used |-> [e \in ElementIds |-> {}]]
    /\ fired = NoValue

\* attach(element, eventType, handler).  calls.pending counts, per handler,
\* the attach calls not yet answered by a detach call; calls.repeated holds
\* the types under which some handler was attached while still attached;
\* calls.used holds the type strings used so far.
Attach(e, t, h) ==
    /\ calls # NoValue
    /\ calls.n < MaxCalls
    /\ elements' = [elements EXCEPT ![e] = attachEventHandler(@, t, h)]
    /\ calls' = [calls EXCEPT
                    !.n = @ + 1,
                    !.pending[e][t][h] = @ + 1,
                    !.repeated[e] = IF calls.pending[e][t][h] > 0
                                    THEN @ \cup {t} ELSE @,
                    !.used[e] = @ \cup {t}]
    /\ UNCHANGED fired

\* detach(element, eventType, handler); it matches an attach call when one
\* of this handler is pending
Detach(e, t, h) ==
    /\ calls # NoValue
    /\ calls.n < MaxCalls
    /\ elements' = [elements EXCEPT ![e] = removeEventHandler(@, t, h)]
    /\ calls' = [calls EXCEPT
                    !.n = @ + 1,
                    !.pending[e][t][h] = IF @ > 0 THEN @ - 1 ELSE @,
                    !.used[e] = @ \cup {t}]
    /\ UNCHANGED fired

\* the host calls the element's on<type> property
Fire(e, propName) ==
    /\ calls # NoValue
    /\ propName \in DOMAIN elements[e].on
    /\ fired' = [element |-> e, propName |-> propName,
                 invoked |-> MasterInvokes(elements[e], propName)]
    /\ UNCHANGED <<elements, calls>>

EventNext ==
    \/ \E e \in ElementIds, t \in EventTypes, h \in Handlers : Attach(e, t, h)
    \/ \E e \in ElementIds, t \in EventTypes, h \in Handlers : Detach(e, t, h)
    \/ \E e \in ElementIds, p \in PropNames : Fire(e, p)

(***************************************************************************)
(* The dispatch specification: the master handler of one element, run step *)
(* by step.  The master handler fetches the handler Set of its event type  *)
(* once and iterates that Set itself (Set.prototype.forEach): an entry     *)
(* added during the iteration is visited, an entry deleted before its turn *)
(* is not, and a Set that was emptied and dropped from the Map stays empty *)
(* for the iteration that holds it.  A handler that throws ends forEach.   *)
(***************************************************************************)
DispatchTypes == {"click", "keydown"}

DispatchIdle == dispElement = NoValue /\ dispatch = NoValue

RECURSIVE AttachAll(_, _, _)
AttachAll(element, eventType, hs) ==
    IF hs = <<>> THEN element
    ELSE AttachAll(attachEventHandler(element, eventType, Head(hs)), eventType, Tail(hs))

\* the handlers attached under "click" before the run: any list of
\* distinct handlers
HandlerLists ==
    {s \in SeqsUpTo(Handlers, NumHandlers) :
        \A i, j \in 1..Len(s) : i # j => s[i] # s[j]}

DispatchStart ==
    /\ dispElement \in
          {AttachAll([has |-> FALSE, handlers |-> <<>>, on |-> <<>>], "click", s) :
              s \in HandlerLists}
    /\ dispatch = [pc |-> "idle", type |-> "", live |-> FALSE, pos |-> 0,
                   snapshot |-> <<>>, invoked |-> <<>>, during |-> 0, n |-> 0]

\* the Set the running master handler iterates, in insertion order
Iterated ==
    IF dispatch.live THEN dispElement.handlers[dispatch.type] ELSE <<>>

IndexOf(s, x) ==
    IF \E i \in 1..Len(s) : s[i] = x
    THEN CHOOSE i \in 1..Len(s) : s[i] = x
    ELSE 0

\* the host calls element[propName](event): the master handler reads
\* handlers.get(eventType) and starts forEach on it
DispatchFire(propName) ==
    /\ dispatch # NoValue
    /\ dispatch.pc \in {"idle", "returned", "raised"}
    /\ propName \in DOMAIN dispElement.on
    /\ LET eventType == dispElement.on[propName]
           found == eventType \in DOMAIN dispElement.handlers
       IN  dispatch' = [dispatch EXCEPT
                           !.pc = "iterate",
                           !.type = eventType,
                           !.live = found,
                           !.pos = 0,
                           !.snapshot = IF found THEN dispElement.handlers[eventType]
                                        ELSE <<>>,
                           !.invoked = <<>>,
                           !.during = 0]
    /\ UNCHANGED dispElement

\* forEach takes the next entry and calls it: h.call(element, event)
DispatchVisit ==
    /\ dispatch # NoValue
    /\ dispatch.pc = "iterate"
    /\ dispatch.pos < Len(Iterated)
    /\ dispatch' = [dispatch EXCEPT
                       !.pc = "handler",
                       !.pos = @ + 1,
                       !.invoked = Append(@, Iterated[dispatch.pos + 1])]
    /\ UNCHANGED dispElement

\* forEach has no entry left: the master handler returns
DispatchFinish ==
    /\ dispatch # NoValue
    /\ dispatch.pc = "iterate"
    /\ dispatch.pos >= Len(Iterated)
    /\ dispatch' = [dispatch EXCEPT !.pc = "returned"]
    /\ UNCHANGED dispElement

\* the handler being run returns
HandlerReturns ==
    /\ dispatch # NoValue
    /\ dispatch.pc = "handler"
    /\ dispatch' = [dispatch EXCEPT !.pc = "iterate"]
    /\ UNCHANGED dispElement

\* the handler being run throws (a delegatedHandler passes on what the
\* handler it wraps throws): nothing catches it, forEach and the master
\* handler end with the exception
HandlerRaises ==
    /\ dispatch # NoValue
    /\ dispatch.pc = "handler"
    /\ dispatch' = [dispatch EXCEPT !.pc = "raised"]
    /\ UNCHANGED dispElement

\* attachEventHandler(element, t, h), called between dispatches or by the
\* handler being run
CallAttach(t, h) ==
    /\ dispatch # NoValue
    /\ dispatch.pc # "iterate"
    /\ dispatch.n < MaxCalls
    /\ dispElement' = attachEventHandler(dispElement, t, h)
    /\ dispatch' = [dispatch EXCEPT
                       !.n = @ + 1,
                       !.during = IF dispatch.pc = "handler" THEN @ + 1 ELSE @]

\* removeEventHandler(element, t, h), called between dispatches or by the
\* handler being run; deleting an entry the iteration has passed moves the
\* entries after it one place down, emptying the Set drops it from the Map
CallDetach(t, h) ==
    /\ dispatch # NoValue
    /\ dispatch.pc # "iterate"
    /\ dispatch.n < MaxCalls
    /\ dispElement' = removeEventHandler(dispElement, t, h)
    /\ LET running == dispatch.pc = "handler" /\ dispatch.live /\ t = dispatch.type
           at == IF running THEN IndexOf(Iterated, h) ELSE 0
       IN  dispatch' = [dispatch EXCEPT
                           !.n = @ + 1,
                           !.during = IF dispatch.pc = "handler" THEN @ + 1 ELSE @,
                           !.live = IF running THEN t \in DOMAIN dispElement'.handlers
                                    ELSE @,
                           !.pos = IF at > 0 /\ at <= @ THEN @ - 1 ELSE @]

DispatchNext ==
    \/ \E p \in PropNames : DispatchFire(p)
    \/ DispatchVisit
    \/ DispatchFinish
    \/ HandlerReturns
    \/ HandlerRaises
    \/ \E t \in DispatchTypes, h \in Handlers : CallAttach(t, h)
    \/ \E t \in DispatchTypes, h \in Handlers : CallDetach(t, h)

(***************************************************************************)
(* The store of src/src/state.js (createStore).  The state object is a    *)
(* function from the keys it holds to their values; the subscribers are a  *)
(* Set, kept in insertion order.  setState and updateState return the      *)
(* store they leave and the calls they made of subscribers, each with the  *)
(* state it was handed.                                                    *)
(***************************************************************************)
\* obj[key]: undefined when the key is absent
GetProp(obj, key) == IF key \in DOMAIN obj THEN obj[key] ELSE Undefined

createStore(initialState) == [state |-> initialState, subscribers |-> <<>>]

\* subscribers.forEach(callback => callback(state))
notifySubscribers(st) ==
    [i \in 1..Len(st.subscribers) |->
        [callback |-> st.subscribers[i], state |-> st.state]]

setStateAlwaysNotify(st, key, value) ==
    LET written == [st EXCEPT !.state = With(@, key, value)]
    IN  [store |-> written, notified |-> notifySubscribers(written)]

setState(st, key, value) ==
    IF StrictEquals(GetProp(st.state, key), value)
    THEN [store |-> st, notified |-> <<>>]
    ELSE LET written == [st EXCEPT !.state = With(@, key, value)]
         IN  [store |-> written, notified |-> notifySubscribers(written)]

\* the keys the loop of updateState writes
ChangedKeys(state, partialState) ==
    {key \in DOMAIN partialState :
        ~StrictEquals(GetProp(state, key), partialState[key])}

\* the state after the loop: every changed key holds its new value
Committed(state, partialState) ==
    [key \in DOMAIN state \cup ChangedKeys(state, partialState) |->
        IF key \in ChangedKeys(state, partialState) THEN partialState[key]
        ELSE state[key]]

updateStateAlwaysNotify(st, partialState) ==
    LET written == [st EXCEPT !.state = Committed(@, partialState)]
    IN  [store |-> written, notified |-> notifySubscribers(written)]

updateState(st, partialState) ==
    LET hasChanges == ChangedKeys(st.state, partialState) # {}
        written == [st EXCEPT !.state = Committed(@, partialState)]
    IN  [store |-> written,
         notified |-> IF hasChanges THEN notifySubscribers(written) ELSE <<>>]

subscribe(st, callback) == [st EXCEPT !.subscribers = SetAdd(@, callback)]
\* the function subscribe(callback) returned
unsubscribe(st, callback) == [st EXCEPT !.subscribers = SetDelete(@, callback)]

(***************************************************************************)
(* The store specification: one store, written and subscribed to.          *)
(***************************************************************************)
StoreKeys == {"a", "b"}
Shared1 == Obj(5, [n |-> Num(1)])
Shared2 == Obj(6, [n |-> Num(1)])
StoreValues == {Num(1), Str("1"), Shared1, Shared2}
StoreStates == UNION {[keys -> StoreValues] : keys \in SUBSET StoreKeys}

StoreIdle == store = NoValue /\ storeLog = NoValue

StoreStart ==
    /\ store \in {createStore(s) : s \in {<<>>, [a |-> Num(1)], [a |-> Shared1]}}
    /\ storeLog = [op |-> "createStore"]

\* what the next call remembers of the call before it
Previous ==
    IF storeLog.op = "setState"
    THEN [op |-> "setState", key |-> storeLog.key, value |-> storeLog.value,
          before |-> GetProp(storeLog.before, storeLog.key),
          notified |-> Len(storeLog.notified)]
    ELSE [op |-> storeLog.op]

SetState(key, value) ==
    /\ store # NoValue
    /\ LET done == setState(store, key, value)
       IN  /\ store' = done.store
           /\ storeLog' = [op |-> "setState", key |-> key, value |-> value,
                           before |-> store.state, notified |-> done.notified,
                           prev |-> Previous]

UpdateState(partialState) ==
    /\ store # NoValue
    /\ LET done == updateState(store, partialState)
       IN  /\ store' = done.store
           /\ storeLog' = [op |-> "updateState", partial |-> partialState,
                           before |-> store.state, notified |-> done.notified]

Subscribe(callback) ==
    /\ store # NoValue
    /\ store' = subscribe(store, callback)
    /\ storeLog' = [op |-> "subscribe"]

Unsubscribe(callback) ==
    /\ store # NoValue
    /\ store' = unsubscribe(store, callback)
    /\ storeLog' = [op |-> "unsubscribe"]

StoreNext ==
    \/ \E key \in StoreKeys, value \in StoreValues : SetState(key, value)
    \/ \E partialState \in StoreStates : UpdateState(partialState)
    \/ \E callback \in Handlers : Subscribe(callback)
    \/ \E callback \in Handlers : Unsubscribe(callback)

(***************************************************************************)
(* The named-event bus of src/unnamed/part_000 (on, emit) and the reactive *)
(* state of src/src/state.js (createState).  customEvents maps an event    *)
(* name to its Set of handlers, in insertion order.                        *)
(***************************************************************************)
on(events, eventName, handler) ==
    LET created == IF eventName \in DOMAIN events THEN events
                   ELSE With(events, eventName, <<>>)
    IN  With(created, eventName, SetAdd(created[eventName], handler))

\* the function on(eventName, handler) returned
unsubscribeFrom(events, eventName, handler) ==
    IF eventName \notin DOMAIN events THEN events
    ELSE LET handlers == SetDelete(events[eventName], handler)
         IN  IF Len(handlers) = 0 THEN Without(events, eventName)
             ELSE With(events, eventName, handlers)

\* one call handler(data) made by emit; raised: the handler threw
Invocation(handler, data, throwing) ==
    [callback |-> handler, data |-> data, raised |-> handler \in throwing]

emitOtherNames(events, eventName, data, throwing) ==
    LET others == DOMAIN events \ {eventName}
        handlers == IF others = {} THEN <<>>
                    ELSE events[CHOOSE name \in others : TRUE]
    IN  [outcome |-> "returned",
         invoked |-> [i \in 1..Len(handlers) |-> Invocation(handlers[i], data, throwing)]]

emitNoCatch(events, eventName, data, throwing) ==
    LET handlers == IF eventName \in DOMAIN events THEN events[eventName] ELSE <<>>
        throwers == {i \in 1..Len(handlers) : handlers[i] \in throwing}
        stop == IF throwers = {} THEN Len(handlers)
                ELSE CHOOSE i \in throwers : \A j \in throwers : i <= j
    IN  [outcome |-> IF throwers = {} THEN "returned" ELSE "raised",
         invoked |-> [i \in 1..stop |-> Invocation(handlers[i], data, throwing)]]

\* emit(eventName, data); throwing: the handlers that throw when called.
\* Every call is inside its own try/catch, whose catch logs and goes on.
emit(events, eventName, data, throwing) ==
    IF eventName \notin DOMAIN events
    THEN [outcome |-> "returned", invoked |-> <<>>]
    ELSE [outcome |-> "returned",
          invoked |-> [i \in 1..Len(events[eventName]) |->
                          Invocation(events[eventName][i], data, throwing)]]

\* the identifiers state.js binds: its imports and its top-level
\* declarations (its own on and emit are commented out)
StateModuleScope ==
    {"diff", "patch", "appendTo", "eventSubscribers", "globalState",
     "createStore", "createState", "createComponent", "createSignal", "getState"}

\* the set trap of createState's Proxy: proxy[property] = value
stateSetTrap(target, property, value, events) ==
    IF StrictEquals(GetProp(target, property), value)
    THEN [target |-> target, outcome |-> "returned", invoked |-> <<>>]
    ELSE LET written == With(target, property, value)
         IN  IF "emit" \in StateModuleScope
             THEN [target |-> written, outcome |-> "returned",
                   invoked |-> emit(events, "stateChange",
                                    [property |-> property, value |-> value],
                                    {}).invoked]
             ELSE [target |-> written, outcome |-> "ReferenceError",
                   invoked |-> <<>>]

(***************************************************************************)
(* The bus specification: on, the unsubscribe functions it returned, emit  *)
(* and writes to the reactive state, in any order.                         *)
(***************************************************************************)
MaxSubscriptions == 2     \* calls of on

EventNames == {"stateChange", "saved"}
Callbacks == {Fn(1), Fn(2)}
StateValues == {Num(1), Num(2)}

BusIdle ==
    /\ customEvents = NoValue /\ subscriptions = NoValue
    /\ globalState = NoValue /\ busLog = NoValue

\* subscriptions: the calls of on made so far, each with whether the
\* function it returned was called
BusStart ==
    /\ customEvents = <<>>
    /\ subscriptions = <<>>
    /\ globalState = [count |-> Num(1)]
    /\ busLog = [op |-> "start"]

On(eventName, handler) ==
    /\ busLog # NoValue
    /\ Len(subscriptions) < MaxSubscriptions
    /\ customEvents' = on(customEvents, eventName, handler)
    /\ subscriptions' = Append(subscriptions,
                               [name |-> eventName, callback |-> handler,
                                called |-> FALSE])
    /\ busLog' = [op |-> "on"]
    /\ UNCHANGED globalState

\* a call of the function the i-th call of on returned
CallUnsubscribe(i) ==
    /\ busLog # NoValue
    /\ i \in 1..Len(subscriptions)
    /\ customEvents' = unsubscribeFrom(customEvents, subscriptions[i].name,
                                       subscriptions[i].callback)
    /\ subscriptions' = [subscriptions EXCEPT ![i].called = TRUE]
    /\ busLog' = [op |-> "unsubscribe", token |-> i,
                  repeated |-> subscriptions[i].called,
                  before |-> customEvents]
    /\ UNCHANGED globalState

Emit(eventName, data, throwing) ==
    /\ busLog # NoValue
    /\ LET done == emit(customEvents, eventName, data, throwing)
       IN  busLog' = [op |-> "emit", name |-> eventName, data |-> data,
                      throwing |-> throwing,
                      outcome |-> done.outcome, invoked |-> done.invoked]
    /\ UNCHANGED <<customEvents, subscriptions, globalState>>

\* globalState[property] = value, on the Proxy createState returned
WriteState(property, value) ==
    /\ busLog # NoValue
    /\ LET done == stateSetTrap(globalState, property, value, customEvents)
       IN  /\ globalState' = done.target
           /\ busLog' = [op |-> "write", property |-> property, value |-> value,
                         before |-> globalState,
                         outcome |-> done.outcome, invoked |-> done.invoked]
    /\ UNCHANGED <<customEvents, subscriptions>>

BusNext ==
    \/ \E name \in EventNames, handler \in Callbacks : On(name, handler)
    \/ \E i \in 1..MaxSubscriptions : CallUnsubscribe(i)
    \/ \E name \in EventNames, data \in StateValues, throwing \in SUBSET Callbacks :
          Emit(name, data, throwing)
    \/ \E property \in {"count", "label"}, value \in StateValues :
          WriteState(property, value)

(***************************************************************************)
(* The component of src/src/state.js (createComponent).  A component is    *)
(* the closure state of createComponent: target (the object under the      *)
(* Proxy), container (null, or the host container it is mounted in),       *)
(* currentVNode, and the number of render passes made so far; host is the  *)
(* container element of the document.                                      *)
(*                                                                         *)
(* The render function is a counter button: it shows state.count, takes    *)
(* its class from state.label and gives the button a click handler that    *)
(* writes state.count on the state object the render pass was given.       *)
(* Every pass creates a new handler function.                              *)
(***************************************************************************)
\* the click handler a render pass creates; given: the state object of the
\* pass, "proxy" (componentState) or "target" (the object under it)
Closure(pass, given) == [k |-> "function", ref |-> pass, given |-> given]

renderFn(state, given, pass) ==
    createElement("button",
                  <<Attr("className", GetProp(state, "label")),
                    Attr("onClick", Closure(pass, given))>>,
                  Arr(<<GetProp(state, "count")>>))

\* one run of the set trap's render, diff and patch
Cycle(old, new) == [old |-> old, new |-> new]

componentSetTrapAlways(c, property, value) ==
    LET written == [c.c EXCEPT !.target = With(@, property, value)]
    IN  IF c.c.container = "host"
        THEN LET vNode == renderFn(written.target, "target", written.passes + 1)
                 patches == diff(written.currentVNode, vNode)
             IN  [c |-> [written EXCEPT
                            !.host.childNodes =
                                IF Len(@) > 0
                                THEN [@ EXCEPT ![1] = patch(@, patches, TRUE)]
                                ELSE @,
                            !.currentVNode = vNode,
                            !.passes = @ + 1],
                  cycles |-> Append(c.cycles, Cycle(written.currentVNode, vNode))]
        ELSE [c |-> written, cycles |-> c.cycles]

\* componentState[property] = value: the set trap.  c.c is the component,
\* c.cycles the cycles run so far in the current call.
componentSetTrap(c, property, value) ==
    LET oldValue == GetProp(c.c.target, property)
        written == [c.c EXCEPT !.target = With(@, property, value)]
    IN  IF ~StrictEquals(oldValue, value) /\ c.c.container = "host"
        THEN LET vNode == renderFn(written.target, "target", written.passes + 1)
                 patches == diff(written.currentVNode, vNode)
             IN  [c |-> [written EXCEPT
                            !.host.childNodes =
                                IF Len(@) > 0
                                THEN [@ EXCEPT ![1] = patch(@, patches, TRUE)]
                                ELSE @,
                            !.currentVNode = vNode,
                            !.passes = @ + 1],
                  cycles |-> Append(c.cycles, Cycle(written.currentVNode, vNode))]
        ELSE [c |-> written, cycles |-> c.cycles]

\* target[property] = value on the object under the Proxy: no trap runs
writeTarget(c, property, value) ==
    [c EXCEPT !.c.target = With(@, property, value)]

\* a list of writes made one after the other through the Proxy, as
\* Object.assign(componentState, props) and a handler's statements make
RECURSIVE WriteAll(_, _)
WriteAll(c, writes) ==
    IF Len(writes) = 0 THEN c
    ELSE WriteAll(componentSetTrap(c, Head(writes).key, Head(writes).value),
                  Tail(writes))

\* the function createComponent returned, called with (props, mountTo);
\* mountTo is null, or a selector that finds the host container ("found")
\* or nothing ("missing")
callComponent(c, props, mountTo) ==
    LET assigned == WriteAll(c, props)
        vNode == renderFn(assigned.c.target, "proxy", assigned.c.passes + 1)
        passed == [assigned EXCEPT !.c.passes = @ + 1]
    IN  IF mountTo = "found"
        THEN [passed EXCEPT !.c.container = "host",
                            !.c.host = appendTo(vNode, @),
                            !.c.currentVNode = vNode]
        ELSE IF mountTo = "missing"
        THEN [passed EXCEPT !.c.container = "null"]
        ELSE passed

\* the body of the click handler: state.count = 1 - state.count, on the
\* state object its render pass was given
runClosure(c, closure) ==
    LET count == GetProp(c.c.target, "count")
        next == IF count = Num(0) THEN Num(1) ELSE Num(0)
    IN  IF closure.given = "proxy" THEN componentSetTrap(c, "count", next)
        ELSE writeTarget(c, "count", next)

(***************************************************************************)
(* The component specification: one component of the counter button,      *)
(* called, written to through the Proxy, and clicked.                      *)
(***************************************************************************)
MaxWrites == 3      \* calls, writes and clicks made on the component

ComponentIdle == component = NoValue /\ componentLog = NoValue

\* createComponent(renderFn, {count: 0, label: 'a'}) and an empty container
ComponentStart ==
    /\ component = [target |-> [count |-> Num(0), label |-> Str("a")],
                    container |-> "null",
                    currentVNode |-> Null,
                    passes |-> 0,
                    host |-> [currentVNode |-> Undefined, childNodes |-> <<>>]]
    /\ componentLog = [op |-> "createComponent", n |-> 0]

ComponentCalls ==
    {<<<<>>, "found">>, <<<<Attr("count", Num(1))>>, "found">>,
     <<<<>>, "none">>, <<<<>>, "missing">>}

PropertyWrites ==
    {Attr("count", Num(0)), Attr("count", Num(1)),
     Attr("label", Str("a")), Attr("label", Str("b"))}

\* the writes one call stack makes: one write, or a write of count
\* followed by a second write
WriteLists ==
    {<<w>> : w \in PropertyWrites}
    \cup {<<Attr("count", Num(1)), w>> :
             w \in {Attr("count", Num(1)), Attr("count", Num(0)),
                    Attr("label", Str("b"))}}

CallComponent(props, mountTo) ==
    /\ componentLog # NoValue
    /\ componentLog.n < MaxWrites
    /\ LET done == callComponent([c |-> component, cycles |-> <<>>], props, mountTo)
       IN  /\ component' = done.c
           /\ componentLog' = [op |-> "call", n |-> componentLog.n + 1,
                               cycles |-> done.cycles]

\* writes made through the Proxy, which the first render pass was given
WriteProxy(writes) ==
    /\ componentLog # NoValue
    /\ componentLog.n < MaxWrites
    /\ LET done == WriteAll([c |-> component, cycles |-> <<>>], writes)
       IN  /\ component' = done.c
           /\ componentLog' = [op |-> "write", n |-> componentLog.n + 1,
                               writes |-> writes, before |-> component,
                               cycles |-> done.cycles]

\* a click on the mounted button: its master handler calls the handler
\* attached to it
Click ==
    /\ componentLog # NoValue
    /\ componentLog.n < MaxWrites
    /\ component.container = "host"
    /\ Len(component.host.childNodes) > 0
    /\ LET button == component.host.childNodes[1]
           invoked == MasterInvokes(button, "onclick")
       IN  /\ Len(invoked) = 1
           /\ LET done == runClosure([c |-> component, cycles |-> <<>>], invoked[1])
              IN  /\ component' = done.c
                  /\ componentLog' = [op |-> "click", n |-> componentLog.n + 1,
                                      given |-> invoked[1].given,
                                      cycles |-> done.cycles]

ComponentNext ==
    \/ \E call \in ComponentCalls : CallComponent(call[1], call[2])
    \/ \E writes \in WriteLists : WriteProxy(writes)
    \/ Click

(***************************************************************************)
(* Delegation (src/unnamed/part_000: delegateEvent, registerEvents).  The  *)
(* document is a fixed tree around the container "box":                    *)
(*     doc > outer.a > box.b > item.a > leaf.c      and      box.b > side  *)
(* A selector is a class selector; "null" stands for no element.           *)
(***************************************************************************)
Parent ==
    [outer |-> "doc", box |-> "outer", item |-> "box", side |-> "box",
     leaf |-> "item"]
ClassList ==
    [doc |-> {}, outer |-> {"a"}, box |-> {"b"}, item |-> {"a"}, side |-> {},
     leaf |-> {"c"}]

\* element.matches(selector) for a selector "." + class, with or without
\* the pseudo-class ":empty" (an element that has no child)
Matches(element, selector) ==
    LET n == Len(selector)
        pseudo == n > 6 /\ SubSeq(selector, n - 5, n) = ":empty"
        simple == IF pseudo THEN SubSeq(selector, 1, n - 6) ELSE selector
    IN  /\ startsWith(simple, ".")
        /\ slice(simple, 1) \in ClassList[element]
        /\ pseudo => ~\E e \in DOMAIN Parent : Parent[e] = element

\* element.closest(selector): the nearest ancestor-or-self that matches
RECURSIVE closest(_, _)
closest(element, selector) ==
    IF Matches(element, selector) THEN element
    ELSE IF element \in DOMAIN Parent THEN closest(Parent[element], selector)
    ELSE "null"

\* ancestor.contains(element): element is ancestor or a descendant of it
RECURSIVE contains(_, _)
contains(ancestor, element) ==
    \/ element = ancestor
    \/ element \in DOMAIN Parent /\ contains(ancestor, Parent[element])

\* the delegatedHandler closure the ref-th call of delegateEvent creates
Delegated(ref, selector, handler) ==
    [k |-> "function", ref |-> 100 + ref, selector |-> selector, handler |-> handler]

\* one call handler.call(receiver, event, argument)
HandlerCall(handler, receiver, argument) ==
    [handler |-> handler, receiver |-> receiver, argument |-> argument]

delegatedHandlerAnyMatch(d, containerEl, origin) ==
    LET target == closest(origin, d.selector)
    IN  IF target # "null"
        THEN <<HandlerCall(d.handler, target, target)>>
        ELSE <<>>

\* delegatedHandler(event) with event.target = origin: the calls it makes
delegatedHandler(d, containerEl, origin) ==
    LET target == closest(origin, d.selector)
    IN  IF target # "null" /\ contains(containerEl, target)
        THEN <<HandlerCall(d.handler, target, target)>>
        ELSE <<>>

\* what one handler of the container's set does when the master handler
\* calls it with the container as receiver
RunHandler(h, containerEl, origin) ==
    IF "selector" \in DOMAIN h THEN delegatedHandler(h, containerEl, origin)
    ELSE <<HandlerCall(h, containerEl, "event")>>

\* a container argument of delegateEvent: the element "box", a selector
\* string that finds it ("#box") or finds nothing ("#missing"), or null
querySelector(selector) == IF selector = "#box" THEN "box" ELSE "null"
ResolveContainer(c) ==
    IF c \in {"#box", "#missing"} THEN querySelector(c) ELSE c

delegateEventNoGuard(element, eventType, c, selector, handler, ref) ==
    [element |-> attachEventHandler(element, eventType,
                                    Delegated(ref, selector, handler)),
     cleanup |-> [eventType |-> eventType,
                  handler |-> Delegated(ref, selector, handler),
                  inert |-> FALSE]]

\* delegateEvent(eventType, container, selector, handler), the ref-th call:
\* the container element afterwards and the cleanup function returned
\* (inert: the function with no body)
delegateEvent(element, eventType, c, selector, handler, ref) ==
    IF ResolveContainer(c) = "null"
    THEN [element |-> element,
          cleanup |-> [eventType |-> eventType,
                       handler |-> Delegated(ref, selector, handler),
                       inert |-> TRUE]]
    ELSE [element |-> attachEventHandler(element, eventType,
                                         Delegated(ref, selector, handler)),
          cleanup |-> [eventType |-> eventType,
                       handler |-> Delegated(ref, selector, handler),
                       inert |-> FALSE]]

runCleanupOfUserHandler(element, cleanup) ==
    IF cleanup.inert \/ cleanup.eventType \notin DOMAIN element.handlers
    THEN element
    ELSE LET kept == SelectSeq(element.handlers[cleanup.eventType],
                               LAMBDA h : ~("selector" \in DOMAIN h
                                            /\ h.handler = cleanup.handler.handler))
         IN  IF Len(kept) = 0
             THEN removeEventHandler(
                      [element EXCEPT !.handlers[cleanup.eventType] = <<cleanup.handler>>],
                      cleanup.eventType, cleanup.handler)
             ELSE [element EXCEPT !.handlers[cleanup.eventType] = kept]

\* a call of a cleanup function delegateEvent returned
runCleanup(element, cleanup) ==
    IF cleanup.inert THEN element
    ELSE removeEventHandler(element, cleanup.eventType, cleanup.handler)

RECURSIVE runCleanups(_, _)
runCleanups(element, cleanups) ==
    IF Len(cleanups) = 0 THEN element
    ELSE runCleanups(runCleanup(element, Head(cleanups)), Tail(cleanups))

\* s.trim(), for spaces
RECURSIVE trim(_)
trim(s) ==
    IF Len(s) = 0 THEN s
    ELSE IF SubSeq(s, 1, 1) = " " THEN trim(SubSeq(s, 2, Len(s)))
    ELSE IF SubSeq(s, Len(s), Len(s)) = " " THEN trim(SubSeq(s, 1, Len(s) - 1))
    ELSE s

\* s.split(separator), for a separator of one character
RECURSIVE split(_, _)
split(s, separator) ==
    IF \E i \in 1..Len(s) : SubSeq(s, i, i) = separator
    THEN LET at == CHOOSE i \in 1..Len(s) :
                      /\ SubSeq(s, i, i) = separator
                      /\ \A j \in 1..(i - 1) : SubSeq(s, j, j) # separator
         IN  <<SubSeq(s, 1, at - 1)>> \o split(SubSeq(s, at + 1, Len(s)), separator)
    ELSE <<s>>

\* const [eventType, selector] = config.split(':').map(s => s.trim());
\* a missing part is undefined, which is falsy like the empty string
ConfigParts(config) ==
    LET parts == split(config, ":")
    IN  [eventType |-> trim(parts[1]),
         selector |-> IF Len(parts) >= 2 THEN trim(parts[2]) ELSE ""]

RECURSIVE registerEventsEveryKey(_, _, _, _)
registerEventsEveryKey(element, c, eventMap, ref) ==
    IF Len(eventMap) = 0 THEN [element |-> element, cleanups |-> <<>>]
    ELSE LET parts == ConfigParts(Head(eventMap).key)
             one == delegateEvent(element, parts.eventType, c, parts.selector,
                                  Head(eventMap).value, ref)
             rest == registerEventsEveryKey(one.element, c, Tail(eventMap), ref + 1)
         IN  [element |-> rest.element, cleanups |-> <<one.cleanup>> \o rest.cleanups]

\* registerEvents(container, eventMap): eventMap is the list of entries of
\* the object, the delegations get the refs from ref on
RECURSIVE registerEvents(_, _, _, _)
registerEvents(element, c, eventMap, ref) ==
    IF Len(eventMap) = 0 THEN [element |-> element, cleanups |-> <<>>]
    ELSE LET parts == ConfigParts(Head(eventMap).key)
         IN  IF parts.eventType # "" /\ parts.selector # ""
             THEN LET one == delegateEvent(element, parts.eventType, c,
                                           parts.selector, Head(eventMap).value, ref)
                      rest == registerEvents(one.element, c, Tail(eventMap), ref + 1)
                  IN  [element |-> rest.element,
                       cleanups |-> <<one.cleanup>> \o rest.cleanups]
             ELSE registerEvents(element, c, Tail(eventMap), ref)

(***************************************************************************)
(* The delegation specification: delegateEvent called on the container     *)
(* "box", the cleanup functions it returns, a plain handler attached next  *)
(* to the delegations, and events fired inside the container.  Handlers    *)
(* return normally and call nothing of the registry.                       *)
(***************************************************************************)
MaxDelegations == 2

DelegateTypes == {"click", "keydown"}
Selectors == {".a", ".b", ".c"}
UserHandlers == {Fn(1), Fn(2)}
PlainHandler == Fn(3)
Origins == {"leaf", "side"}

DelegateIdle ==
    /\ delegEl = NoValue /\ delegations = NoValue
    /\ registrations = NoValue /\ delegLog = NoValue

DelegateStart ==
    /\ delegEl = [has |-> FALSE, handlers |-> <<>>, on |-> <<>>]
    /\ delegations = <<>>
    /\ registrations = <<>>
    /\ delegLog = [op |-> "none"]

\* cleanup = delegateEvent(t, c, selector, h)
Delegate(t, c, selector, h) ==
    /\ delegLog # NoValue
    /\ Len(delegations) < MaxDelegations
    /\ LET made == delegateEvent(delegEl, t, c, selector, h, Len(delegations) + 1)
       IN  /\ delegEl' = made.element
           /\ delegations' = Append(delegations,
                  [cleanup |-> made.cleanup, c |-> c, cleaned |-> 0])
    /\ delegLog' = [op |-> "delegate", before |-> delegEl,
                    index |-> Len(delegations) + 1]
    /\ UNCHANGED registrations

\* a call of the cleanup function the i-th delegateEvent call returned
Cleanup(i) ==
    /\ delegLog # NoValue
    /\ i \in 1..Len(delegations)
    /\ delegations[i].cleaned < 2
    /\ delegEl' = runCleanup(delegEl, delegations[i].cleanup)
    /\ delegations' = [delegations EXCEPT ![i].cleaned = @ + 1]
    /\ delegLog' = [op |-> "cleanup", before |-> delegEl, index |-> i]
    /\ UNCHANGED registrations

\* attachEventHandler(box, "click", PlainHandler)
AttachPlain ==
    /\ delegLog # NoValue
    /\ delegEl' = attachEventHandler(delegEl, "click", PlainHandler)
    /\ delegEl' # delegEl
    /\ delegLog' = [op |-> "attach", before |-> delegEl]
    /\ UNCHANGED <<delegations, registrations>>

\* an event of type t whose target is origin reaches the container: the
\* host calls box["on" + t]
FireEvent(t, origin) ==
    /\ delegLog # NoValue
    /\ ("on" \o t) \in DOMAIN delegEl.on
    /\ delegLog' = [op |-> "fire", type |-> t, origin |-> origin,
                    invoked |->
                        LET hs == MasterInvokes(delegEl, "on" \o t)
                        IN  [i \in 1..Len(hs) |->
                                [by |-> hs[i],
                                 calls |-> RunHandler(hs[i], "box", origin)]]]
    /\ UNCHANGED <<delegEl, delegations, registrations>>

DelegateNext ==
    \/ \E t \in DelegateTypes, s \in Selectors, h \in UserHandlers :
          Delegate(t, "box", s, h)
    \/ \E t \in DelegateTypes : Delegate(t, "#missing", ".a", Fn(1))
    \/ \E i \in 1..MaxDelegations : Cleanup(i)
    \/ AttachPlain
    \/ \E t \in DelegateTypes, o \in Origins : FireEvent(t, o)

(***************************************************************************)
(* The registration specification: one call of registerEvents on a         *)
(* container that already carries a delegation made by delegateEvent, the  *)
(* cleanup function it returns, the plain handler and events.              *)
(***************************************************************************)
ConfigKeys == {"click:.a", " keydown : .c ", "click", ":.b", "click: "}
EventMaps ==
    {m \in SeqsUpTo([key : ConfigKeys, value : UserHandlers], 2) :
        Len(m) >= 1 /\ \A i, j \in 1..Len(m) : i # j => m[i].key # m[j].key}

RegisterStart ==
    /\ \E h \in UserHandlers :
          LET made == delegateEvent([has |-> FALSE, handlers |-> <<>>, on |-> <<>>],
                                    "click", "box", ".a", h, 1)
          IN  /\ delegEl = made.element
              /\ delegations = <<[cleanup |-> made.cleanup, c |-> "box",
                                  cleaned |-> 0]>>
    /\ registrations = <<>>
    /\ delegLog = [op |-> "none"]

\* cleanup = registerEvents(c, eventMap)
RegisterEvents(c, eventMap) ==
    /\ delegLog # NoValue
    /\ Len(registrations) = 0
    /\ LET made == registerEvents(delegEl, c, eventMap, Len(delegations) + 1)
       IN  /\ delegEl' = made.element
           /\ registrations' = <<[c |-> c, eventMap |-> eventMap,
                                  cleanups |-> made.cleanups, cleaned |-> 0]>>
    /\ delegLog' = [op |-> "register", before |-> delegEl, index |-> 1]
    /\ UNCHANGED delegations

\* a call of the cleanup function the j-th registerEvents call returned
CleanupRegistered(j) ==
    /\ delegLog # NoValue
    /\ j \in 1..Len(registrations)
    /\ registrations[j].cleaned < 2
    /\ delegEl' = runCleanups(delegEl, registrations[j].cleanups)
    /\ registrations' = [registrations EXCEPT ![j].cleaned = @ + 1]
    /\ delegLog' = [op |-> "cleanupRegistered", before |-> delegEl, index |-> j]
    /\ UNCHANGED delegations

RegisterNext ==
    \/ \E c \in {"box", "#box", "#missing"}, m \in EventMaps : RegisterEvents(c, m)
    \/ CleanupRegistered(1)
    \/ AttachPlain
    \/ \E t \in DelegateTypes, o \in Origins : FireEvent(t, o)

(***************************************************************************)
(* The key specification: one call of registerEvents on the bare container *)
(* with keys as an application writes them, among them keys whose selector *)
(* holds a colon of its own, then events and the cleanup function.         *)
(***************************************************************************)
WrittenKeys == {"click:.a", "click:.a:empty", "click:.c:empty", " keydown : .c "}
WrittenMaps ==
    {m \in SeqsUpTo([key : WrittenKeys, value : UserHandlers], 2) :
        Len(m) >= 1 /\ \A i, j \in 1..Len(m) : i # j => m[i].key # m[j].key}

KeysStart ==
    /\ delegEl = [has |-> FALSE, handlers |-> <<>>, on |-> <<>>]
    /\ delegations = <<>>
    /\ registrations = <<>>
    /\ delegLog = [op |-> "none"]

\* cleanup = registerEvents(box, eventMap)
RegisterWritten(eventMap) ==
    /\ delegLog # NoValue
    /\ Len(registrations) = 0
    /\ LET made == registerEvents(delegEl, "box", eventMap, 1)
       IN  /\ delegEl' = made.element
           /\ registrations' = <<[c |-> "box", eventMap |-> eventMap,
                                  cleanups |-> made.cleanups, cleaned |-> 0]>>
    /\ delegLog' = [op |-> "register", before |-> delegEl, index |-> 1]
    /\ UNCHANGED delegations

KeysNext ==
    \/ \E m \in WrittenMaps : RegisterWritten(m)
    \/ CleanupRegistered(1)
    \/ \E t \in DelegateTypes, o \in Origins : FireEvent(t, o)

(***************************************************************************)
(* The identity specification: patch called on the children of one host    *)
(* parent.  Every host node carries an id, the reference the program       *)
(* holds; a node that is mutated keeps its id, a node render creates gets  *)
(* a fresh one.                                                            *)
(***************************************************************************)
MaxPatches == 2

patchInTreeReturnsInput(parentNode, index, patches, fresh) ==
    LET domNode == parentNode.childNodes[index]
    IN  IF patches.type = "REPLACE"
        THEN [parentNode |-> [parentNode EXCEPT !.childNodes[index] =
                                 [id |-> fresh, node |-> render(patches.newVNode)]],
              returned |-> domNode.id]
        ELSE [parentNode |-> [parentNode EXCEPT !.childNodes[index].node =
                                 patch(domNode.node, patches, TRUE)],
              returned |-> domNode.id]

\* patch(domNode, patches) for domNode = parentNode.childNodes[index]: the
\* parent afterwards and the reference returned.  REPLACE renders a new
\* node and puts it where domNode was (parentNode.replaceChild).
patchInTree(parentNode, index, patches, fresh) ==
    LET domNode == parentNode.childNodes[index]
    IN  IF patches.type = "REPLACE"
        THEN [parentNode |-> [parentNode EXCEPT !.childNodes[index] =
                                 [id |-> fresh, node |-> render(patches.newVNode)]],
              returned |-> fresh]
        ELSE [parentNode |-> [parentNode EXCEPT !.childNodes[index].node =
                                 patch(domNode.node, patches, TRUE)],
              returned |-> domNode.id]

IdentityKids ==
    {Str("a"), Str("b"), createElement("li", <<>>, Str("a")),
     createElement("li", <<Attr("className", Str("x"))>>, Str("a")),
     createElement("ul", <<>>, Arr(<<createElement("li", <<>>, Str("a"))>>))}

PatchAtIdle == hostParent = NoValue /\ patchLog = NoValue

\* a parent whose children were rendered from one or two virtual nodes
PatchAtStart ==
    /\ \E kids \in SeqsUpTo(IdentityKids, 2) :
          /\ Len(kids) >= 1
          /\ hostParent = [childNodes |-> [i \in 1..Len(kids) |->
                                              [id |-> i, node |-> render(kids[i])]],
                           rendered |-> kids]
    /\ patchLog = [op |-> "none", n |-> 0]

\* patch(parent.childNodes[index], diff(old, new)) where old is the virtual
\* node the child was rendered or last patched from
PatchAt(index, new) ==
    /\ patchLog # NoValue
    /\ patchLog.n < MaxPatches
    /\ index \in 1..Len(hostParent.childNodes)
    /\ LET patches == diff(hostParent.rendered[index], new)
           fresh == Len(hostParent.childNodes) + patchLog.n + 1
           done == patchInTree([childNodes |-> hostParent.childNodes],
                               index, patches, fresh)
       IN  /\ hostParent' = [childNodes |-> done.parentNode.childNodes,
                             rendered |-> [hostParent.rendered EXCEPT ![index] = new]]
           /\ patchLog' = [op |-> "patch", n |-> patchLog.n + 1,
                           before |-> hostParent.childNodes, index |-> index,
                           patches |-> patches, returned |-> done.returned]

PatchAtNext == \E index \in 1..2, new \in IdentityKids : PatchAt(index, new)

(***************************************************************************)
(* The throttle specification (src/unnamed/part_000: createScrollHandler). *)
(* Time is a clock of whole ticks.  A timer set at tick t with delay d may *)
(* run at any tick from t + d on; timers are the host's, each with its id. *)
(* timeoutId 0 stands for null.  The history lists, in order, the scroll   *)
(* events that reached the throttled handler, the invocations of the user  *)
(* handler (raised: the handler threw) and the calls of the cleanup        *)
(* function.                                                               *)
(***************************************************************************)
MaxScrolls == 3
MaxTime == 4
Delays == {1, 2}

throttledHandlerNoGuard(t, event, now) ==
    [t EXCEPT !.timeoutId = t.nextId,
              !.nextId = @ + 1,
              !.timers = @ \cup {[id |-> t.nextId, due |-> now + t.delay,
                                  event |-> event]}]

\* throttledHandler(event) at tick now
throttledHandler(t, event, now) ==
    IF t.timeoutId # 0 THEN t
    ELSE [t EXCEPT !.timeoutId = t.nextId,
                   !.nextId = @ + 1,
                   !.timers = @ \cup {[id |-> t.nextId, due |-> now + t.delay,
                                       event |-> event]}]

\* the timer callback: handler(event); timeoutId = null;  a handler that
\* throws leaves timeoutId as it is
timerCallback(t, timer, throws) ==
    [t EXCEPT !.timers = @ \ {timer},
              !.timeoutId = IF throws THEN @ ELSE 0]

scrollCleanupKeepTimer(t) ==
    [t EXCEPT !.attached = FALSE]

\* the cleanup function: clearTimeout(timeoutId) when timeoutId is set,
\* then removeEventHandler(targetEl, 'scroll', throttledHandler)
scrollCleanup(t) ==
    [t EXCEPT !.timers = IF t.timeoutId # 0
                         THEN {x \in @ : x.id # t.timeoutId} ELSE @,
              !.attached = FALSE]

ThrottleIdle == clock = NoValue /\ throttle = NoValue /\ history = NoValue

\* after createScrollHandler(element, handler, delay) returned
ThrottleStart ==
    /\ clock = [now |-> 0]
    /\ \E d \in Delays :
          throttle = [timeoutId |-> 0, nextId |-> 1, timers |-> {},
                      attached |-> TRUE, delay |-> d, scrolls |-> 0, cleanups |-> 0]
    /\ history = [entries |-> <<>>]

\* a scroll event reaches the element: the master handler calls
\* throttledHandler
Scroll ==
    /\ throttle # NoValue
    /\ throttle.attached
    /\ throttle.scrolls < MaxScrolls
    /\ throttle' = [throttledHandler(throttle, throttle.scrolls + 1, clock.now)
                        EXCEPT !.scrolls = @ + 1]
    /\ history' = [entries |-> Append(history.entries,
                       [kind |-> "scroll", event |-> throttle.scrolls + 1,
                        at |-> clock.now])]
    /\ UNCHANGED clock

\* the host runs a timer that is due
TimerFires(throws) ==
    /\ throttle # NoValue
    /\ \E timer \in throttle.timers :
          /\ timer.due <= clock.now
          /\ throttle' = timerCallback(throttle, timer, throws)
          /\ history' = [entries |-> Append(history.entries,
                             [kind |-> "invoke", event |-> timer.event,
                              at |-> clock.now, raised |-> throws])]
    /\ UNCHANGED clock

\* the caller calls the cleanup function
CallScrollCleanup ==
    /\ throttle # NoValue
    /\ throttle.cleanups < 2
    /\ throttle' = [scrollCleanup(throttle) EXCEPT !.cleanups = @ + 1]
    /\ history' = [entries |-> Append(history.entries,
                       [kind |-> "cleanup", event |-> 0, at |-> clock.now])]
    /\ UNCHANGED clock

Tick ==
    /\ throttle # NoValue
    /\ clock.now < MaxTime
    /\ clock' = [now |-> clock.now + 1]
    /\ UNCHANGED <<throttle, history>>

ThrottleNext ==
    \/ Scroll
    \/ \E throws \in BOOLEAN : TimerFires(throws)
    \/ CallScrollCleanup
    \/ Tick

(***************************************************************************)
(* The router (src/src/router.js).  routes is the object of exact paths,   *)
(* paramRoutes the list of patterns; a params object is a function from    *)
(* names to strings; "null" stands for no component and no container.      *)
(* Patterns hold a parameter as a whole segment (":id").                   *)
(***************************************************************************)
\* path.startsWith('/') ? path : `/${path}`
CleanPath(path) == IF startsWith(path, "/") THEN path ELSE "/" \o path

\* window.location.pathname after history.pushState(state, '', url) for a
\* url that starts with "/": the host parses the url and the pathname is
\* its text up to the first "?" or "#"
Pathname(url) ==
    LET marks == {i \in 1..Len(url) : SubSeq(url, i, i) \in {"?", "#"}}
    IN  IF marks = {} THEN url
        ELSE SubSeq(url, 1, (CHOOSE i \in marks : \A j \in marks : i <= j) - 1)

\* cleanPath.match(route.regex) for the regex registerParamRoute builds
\* from the pattern: every ":name" segment became (?<name>[^/]+), the rest
\* is literal, and the whole path must match.  The groups, or "null".
RECURSIVE Groups(_, _)
Groups(ps, xs) ==
    IF Len(ps) = 0 THEN <<>>
    ELSE IF startsWith(Head(ps), ":") /\ Len(Head(ps)) > 1
         THEN With(Groups(Tail(ps), Tail(xs)), slice(Head(ps), 1), Head(xs))
         ELSE Groups(Tail(ps), Tail(xs))

MatchRegex(pattern, cleanPath) ==
    LET ps == split(pattern, "/")
        xs == split(cleanPath, "/")
    IN  IF /\ Len(ps) = Len(xs)
           /\ \A i \in 1..Len(ps) :
                 IF startsWith(ps[i], ":") /\ Len(ps[i]) > 1
                 THEN xs[i] # ""
                 ELSE ps[i] = xs[i]
        THEN [matched |-> TRUE, groups |-> Groups(ps, xs)]
        ELSE [matched |-> FALSE, groups |-> <<>>]

registerRouteWithParams(r, path, comp) ==
    IF \E i \in 1..Len(CleanPath(path)) : SubSeq(CleanPath(path), i, i) = ":"
    THEN [r EXCEPT !.paramRoutes =
             Append(@, [pattern |-> CleanPath(path), component |-> comp])]
    ELSE [r EXCEPT !.routes = With(@, CleanPath(path), comp)]

\* registerRoute(path, component)
registerRoute(r, path, comp) ==
    [r EXCEPT !.routes = With(@, CleanPath(path), comp)]

\* registerParamRoute(pattern, component)
registerParamRoute(r, pattern, comp) ==
    IF \E i \in 1..Len(CleanPath(pattern)) : SubSeq(CleanPath(pattern), i, i) = ":"
    THEN [r EXCEPT !.paramRoutes =
             Append(@, [pattern |-> CleanPath(pattern), component |-> comp])]
    ELSE [r EXCEPT !.routes = With(@, CleanPath(pattern), comp)]

\* setDefaultRoute(component)
setDefaultRoute(r, comp) == [r EXCEPT !.defaultRoute = comp]

\* findMatchingRoute(path)
findMatchingRoute(r, path) ==
    LET cleanPath == CleanPath(path)
        hits == SelectSeq(r.paramRoutes,
                          LAMBDA route : MatchRegex(route.pattern, cleanPath).matched)
    IN  IF cleanPath \in DOMAIN r.routes
        THEN [component |-> r.routes[cleanPath], params |-> <<>>]
        ELSE IF Len(hits) > 0
        THEN [component |-> hits[1].component,
              params |-> MatchRegex(hits[1].pattern, cleanPath).groups]
        ELSE [component |-> r.defaultRoute, params |-> <<>>]

\* the page components of the model: each renders its name and the id
\* parameter it was given, '-' when it got none
Page(name, params) ==
    createElement("div", <<Attr("id", Str(name))>>,
                  Arr(<<Str(IF "id" \in DOMAIN params THEN params["id"] ELSE "-")>>))

\* what renderCurrentRoute rendered when it returned without rendering
NotRendered == [component |-> "none", params |-> <<>>]

\* renderCurrentRoute(): the container element afterwards and what was
\* rendered.  The container is found when routerConfig.container is "#app".
renderCurrentRoute(r, pathname, host) ==
    LET found == findMatchingRoute(r, pathname)
    IN  IF r.container # "#app" \/ found.component = "null"
        THEN [host |-> host, rendered |-> NotRendered]
        ELSE LET vNode == Page(found.component, found.params)
             IN  IF ~Truthy(host.currentVNode)
                 THEN [host |-> [appendTo(vNode, host) EXCEPT !.currentVNode = vNode],
                       rendered |-> found]
                 ELSE [host |-> [host EXCEPT
                                    !.childNodes =
                                        IF Len(@) > 0
                                        THEN [@ EXCEPT ![1] =
                                                 patch(@, diff(host.currentVNode, vNode), TRUE)]
                                        ELSE @,
                                    !.currentVNode = vNode],
                       rendered |-> found]

\* the identifiers router.js can call: its imports that resolve and its
\* top-level declarations.  It imports on from state.js, which exports no
\* on; in a build that links the module anyway the binding is undefined.
RouterModuleScope ==
    {"appendTo", "diff", "patch", "attachEventHandler", "registerRoute",
     "registerParamRoute", "findMatchingRoute", "setDefaultRoute", "navigateTo",
     "getRoutes", "getCurrentRoute", "renderCurrentRoute", "initRouter"}

\* initRouter(container): the router afterwards, the container element and
\* how the call ended
initRouter(r, c, pathname, host) ==
    LET configured == [r EXCEPT !.container = c]
    IN  IF r.initialized
        THEN [router |-> configured, host |-> host, outcome |-> "returned"]
        ELSE LET listening == [configured EXCEPT !.popstate = @ + 1]
             IN  IF "on" \notin RouterModuleScope
                 THEN [router |-> listening, host |-> host, outcome |-> "TypeError"]
                 ELSE [router |-> [listening EXCEPT !.initialized = TRUE],
                       host |-> renderCurrentRoute(listening, pathname, host).host,
                       outcome |-> "returned"]

(***************************************************************************)
(* The router specification: routes are registered, the router is          *)
(* initialised on the container "#app", and the application navigates.     *)
(***************************************************************************)
MaxRouterCalls == 4

RoutePaths == {"/", "/user/:id", "user/:id"}
NavigationPaths == {"/", "/user/123", "user/7", "/user/"}
Pages == {"Home", "UserProfile"}

RouterIdle ==
    /\ router = NoValue /\ location = NoValue
    /\ routerHost = NoValue /\ routerLog = NoValue

\* the module as loaded, the document at "/" with an empty #app element
RouterStart ==
    /\ router = [routes |-> <<>>, paramRoutes |-> <<>>, defaultRoute |-> "null",
                 container |-> "null", initialized |-> FALSE, popstate |-> 0,
                 registered |-> <<>>]
    /\ location = [pathname |-> "/", entries |-> 1]
    /\ routerHost = [currentVNode |-> Undefined, childNodes |-> <<>>]
    /\ routerLog = [op |-> "none", n |-> 0]

RegisterRoute(path, comp) ==
    /\ routerLog # NoValue
    /\ routerLog.n < MaxRouterCalls
    /\ router' = [registerRoute(router, path, comp) EXCEPT
                     !.registered = Append(@, [by |-> "registerRoute",
                                               path |-> path, component |-> comp])]
    /\ routerLog' = [op |-> "registerRoute", n |-> routerLog.n + 1]
    /\ UNCHANGED <<location, routerHost>>

RegisterParamRoute(pattern, comp) ==
    /\ routerLog # NoValue
    /\ routerLog.n < MaxRouterCalls
    /\ router' = [registerParamRoute(router, pattern, comp) EXCEPT
                     !.registered = Append(@, [by |-> "registerParamRoute",
                                               path |-> pattern, component |-> comp])]
    /\ routerLog' = [op |-> "registerParamRoute", n |-> routerLog.n + 1]
    /\ UNCHANGED <<location, routerHost>>

SetDefaultRoute(comp) ==
    /\ routerLog # NoValue
    /\ routerLog.n < MaxRouterCalls
    /\ router.defaultRoute # comp
    /\ router' = setDefaultRoute(router, comp)
    /\ routerLog' = [op |-> "setDefaultRoute", n |-> routerLog.n + 1]
    /\ UNCHANGED <<location, routerHost>>

\* initRouter('#app')
CallInitRouter ==
    /\ routerLog # NoValue
    /\ routerLog.n < MaxRouterCalls
    /\ LET made == initRouter(router, "#app", location.pathname, routerHost)
       IN  /\ router' = made.router
           /\ routerHost' = made.host
           /\ routerLog' = [op |-> "initRouter", n |-> routerLog.n + 1,
                            outcome |-> made.outcome]
    /\ UNCHANGED location

\* navigateTo(path)
NavigateTo(path) ==
    /\ routerLog # NoValue
    /\ routerLog.n < MaxRouterCalls
    /\ IF location.pathname = CleanPath(path)
       THEN /\ routerLog' = [op |-> "navigateTo", n |-> routerLog.n + 1,
                             path |-> path, pushed |-> FALSE, rendered |-> NotRendered,
                             before |-> routerHost]
            /\ UNCHANGED <<location, routerHost>>
       ELSE LET pathname == Pathname(CleanPath(path))
                made == renderCurrentRoute(router, pathname, routerHost)
            IN  /\ location' = [pathname |-> pathname,
                                entries |-> Counted(location.entries)]
                /\ routerHost' = made.host
                /\ routerLog' = [op |-> "navigateTo", n |-> routerLog.n + 1,
                                 path |-> path, pushed |-> TRUE,
                                 rendered |-> made.rendered, before |-> routerHost]
    /\ UNCHANGED router

RouterNext ==
    \/ \E p \in RoutePaths, c \in Pages : RegisterRoute(p, c)
    \/ \E p \in RoutePaths, c \in Pages : RegisterParamRoute(p, c)
    \/ \E c \in {"NotFound"} : SetDefaultRoute(c)
    \/ CallInitRouter
    \/ \E p \in NavigationPaths : NavigateTo(p)

(***************************************************************************)
(* The children specification: applyChildrenPatches on a host parent whose *)
(* children carry ids, with the patch list diffChildren gives for the      *)
(* children it was rendered from and a new list of children.               *)
(***************************************************************************)
\* the operations applyChildrenPatches performs, in the order of its three
\* loops: the updates, the appends, the removals as sorted
ChildSteps(childrenPatches) ==
    LET updates == Updates(childrenPatches)
        appends == Appends(childrenPatches)
        removals == RemovalOrder(Removals(childrenPatches))
    IN  [i \in 1..Len(updates) |->
            [op |-> "update", index |-> updates[i].index, patch |-> updates[i].patch]]
        \o [i \in 1..Len(appends) |->
            [op |-> "append", index |-> 0 - 1, patch |-> appends[i]]]
        \o [i \in 1..Len(removals) |->
            [op |-> "remove", index |-> removals[i], patch |-> NoValue]]

\* one operation on the child list; target is the id of the child it acted
\* on, 0 when domNode.childNodes[index] was undefined
ApplyStep(childNodes, step, fresh) ==
    LET at == step.index + 1
        exists == at \in 1..Len(childNodes)
        target == IF exists THEN childNodes[at].id ELSE 0
    IN  IF step.op = "update"
        THEN [childNodes |-> IF exists
                             THEN patchInTree([childNodes |-> childNodes], at,
                                              step.patch, fresh).parentNode.childNodes
                             ELSE childNodes,
              done |-> [op |-> "update", index |-> step.index, target |-> target]]
        ELSE IF step.op = "append"
        THEN [childNodes |-> Append(childNodes,
                                    [id |-> fresh, node |-> render(step.patch.vNode)]),
              done |-> [op |-> "append", index |-> Len(childNodes), target |-> fresh]]
        ELSE [childNodes |-> RemoveChildAt(childNodes, step.index),
              done |-> [op |-> "remove", index |-> step.index, target |-> target]]

RECURSIVE ApplySteps(_, _, _)
ApplySteps(childNodes, steps, fresh) ==
    IF Len(steps) = 0 THEN [childNodes |-> childNodes, applied |-> <<>>]
    ELSE LET one == ApplyStep(childNodes, Head(steps), fresh)
             rest == ApplySteps(one.childNodes, Tail(steps), fresh + 1)
         IN  [childNodes |-> rest.childNodes,
              applied |-> <<one.done>> \o rest.applied]

\* applyChildrenPatches(domNode, childrenPatches) on children with ids
applyChildrenPatchesInTree(childNodes, childrenPatches, fresh) ==
    ApplySteps(childNodes, ChildSteps(childrenPatches), fresh)

ChildrenKids ==
    {Str("a"), Str("b"), createElement("li", <<>>, Str("a")),
     createElement("li", <<Attr("className", Str("x"))>>, Str("a"))}

\* a parent rendered from up to MaxChildren + 1 children
ChildrenStart ==
    /\ \E kids \in SeqsUpTo(ChildrenKids, MaxChildren + 1) :
          hostParent = [childNodes |-> [i \in 1..Len(kids) |->
                                           [id |-> i, node |-> render(kids[i])]],
                        rendered |-> kids]
    /\ patchLog = [op |-> "none", n |-> 0]

\* the children loop of one UPDATE patch: the parent was rendered from
\* hostParent.rendered and is patched towards newChildren
PatchChildren(newChildren) ==
    /\ patchLog # NoValue
    /\ patchLog.n = 0
    /\ LET childrenPatches == diffChildren(hostParent.rendered, newChildren)
           made == applyChildrenPatchesInTree(hostParent.childNodes, childrenPatches,
                                              Len(hostParent.childNodes) + 1)
       IN  /\ hostParent' = [childNodes |-> made.childNodes, rendered |-> newChildren]
           /\ patchLog' = [op |-> "children", n |-> 1,
                           before |-> hostParent.childNodes,
                           patches |-> childrenPatches, applied |-> made.applied]

ChildrenNext ==
    \E newChildren \in SeqsUpTo(ChildrenKids, MaxChildren + 1) : PatchChildren(newChildren)

(***************************************************************************)
(* The attribute specification: setElementAttribute and                    *)
(* removeElementAttribute applied, one after the other, to one element, as *)
(* render and the attribute loop of patch apply them.                      *)
(***************************************************************************)
MaxAttributeCalls == 3

StyleGreen == Obj(7, [color |-> Str("green")])

\* the (key, value) pairs applied
AttributeInputs ==
    {Attr("className", Str("x")),
     Attr("style", StyleRed1), Attr("style", StyleBlue), Attr("style", StyleGreen),
     Attr("data", DataId),
     Attr("onClick", Fn(1)), Attr("onclick", Fn(2)), Attr("onKeydown", Fn(1)),
     Attr("id", Str("y")), Attr("checked", Bool(TRUE)), Attr("title", Str("t"))}

AttributeKeys == {a.key : a \in AttributeInputs}

AttrIdle == attrEl = NoValue /\ attrLog = NoValue

\* document.createElement(tag)
AttrStart ==
    /\ \E tag \in {"div", "input"} : attrEl = documentCreateElement(tag)
    /\ attrLog = [op |-> "none", n |-> 0]

\* setElementAttribute(element, key, value)
SetAttribute(a) ==
    /\ attrLog # NoValue
    /\ attrLog.n < MaxAttributeCalls
    /\ attrEl' = setElementAttribute(attrEl, a.key, a.value)
    /\ attrLog' = [op |-> "set", n |-> attrLog.n + 1, key |-> a.key,
                   value |-> a.value, before |-> attrEl, set |-> NoValue]

\* removeElementAttribute(element, key); the log keeps the element as it
\* was before the setter call when that call came just before, for the
\* same key
RemoveAttribute(key) ==
    /\ attrLog # NoValue
    /\ attrLog.n < MaxAttributeCalls
    /\ attrEl' = removeElementAttribute(attrEl, key)
    /\ attrLog' = [op |-> "remove", n |-> attrLog.n + 1, key |-> key,
                   value |-> Undefined, before |-> attrEl,
                   set |-> IF attrLog.op = "set" /\ attrLog.key = key
                           THEN [value |-> attrLog.value, before |-> attrLog.before]
                           ELSE NoValue]

AttrNext ==
    \/ \E a \in AttributeInputs : SetAttribute(a)
    \/ \E key \in AttributeKeys : RemoveAttribute(key)

(***************************************************************************)
(* The discard specification: patch and the children loop on a host parent *)
(* whose children carry handlers from on-prefixed attributes, towards      *)
(* virtual nodes that make patch replace or remove them.                   *)
(***************************************************************************)
DiscardKids ==
    {Str("a"), createElement("li", <<>>, Str("a")),
     createElement("li", <<Attr("onClick", Fn(1))>>, Str("a")),
     createElement("ul", <<>>,
                   Arr(<<createElement("li", <<Attr("onClick", Fn(2))>>, Str("a"))>>))}

\* a parent whose children were rendered from one or two virtual nodes
DiscardStart ==
    /\ \E kids \in SeqsUpTo(DiscardKids, 2) :
          /\ Len(kids) >= 1
          /\ hostParent = [childNodes |-> [i \in 1..Len(kids) |->
                                              [id |-> i, node |-> render(kids[i])]],
                           rendered |-> kids]
    /\ patchLog = [op |-> "none", n |-> 0]

DiscardNext ==
    \/ \E index \in 1..2, new \in DiscardKids : PatchAt(index, new)
    \/ \E newChildren \in SeqsUpTo(DiscardKids, 2) : PatchChildren(newChildren)

(***************************************************************************)
(* The navigation specification: the routes of an application are          *)
(* registered, the router is initialised and the application navigates,    *)
(* also to a path that carries a query.                                    *)
(***************************************************************************)
VisitedPaths == {"/", "/user/123", "user/123", "/user/123?tab=1", "/missing"}

NavigateStart ==
    /\ router = registerParamRoute(
                    registerRoute([routes |-> <<>>, paramRoutes |-> <<>>,
                                   defaultRoute |-> "null", container |-> "null",
                                   initialized |-> FALSE, popstate |-> 0,
                                   registered |-> <<>>],
                                  "/", "Home"),
                    "/user/:id", "UserProfile")
    /\ location = [pathname |-> "/", entries |-> 1]
    /\ routerHost = [currentVNode |-> Undefined, childNodes |-> <<>>]
    /\ routerLog = [op |-> "none", n |-> 0]

NavigateNext ==
    \/ \E c \in {"NotFound"} : SetDefaultRoute(c)
    \/ CallInitRouter
    \/ \E p \in VisitedPaths : NavigateTo(p)

(***************************************************************************)
(* The alias specification: a store whose objects live in a heap.  Object  *)
(* 1 is the state object of createStore, which setState and updateState    *)
(* write in place; getState() builds a new object; notifySubscribers hands *)
(* the state object itself to every callback.  The caller keeps the        *)
(* references it got and writes properties through them.                   *)
(***************************************************************************)
MaxAliasCalls == 3

AliasKeys == {"a", "b"}
AliasValues == {Num(1), Num(2)}
AliasPartials == {[a |-> Num(2)], [a |-> Num(1), b |-> Num(2)]}

\* the store as setState and updateState see it
StoreOf(objects) == [state |-> objects.heap[1], subscribers |-> objects.subscribers]

\* the objects after setState or updateState left the store st, and the
\* references held once its notifications were made: callback(state) hands
\* object 1
Written(objects, st) ==
    [objects EXCEPT !.heap[1] = st.state, !.subscribers = st.subscribers]
HandedBy(notified) ==
    IF Len(notified) > 0 THEN {[ref |-> 1, from |-> "subscriber"]} ELSE {}

\* getState(): return { ...state }, a new object holding the entries of
\* the state object
getStateCopy(objects) ==
    [objects |-> [objects EXCEPT !.heap = Append(@, objects.heap[1])],
     returned |-> Len(objects.heap) + 1]

AliasIdle == aliasStore = NoValue /\ aliasRefs = NoValue /\ aliasLog = NoValue

\* after createStore(initialState): let state = { ...initialState }
AliasStart ==
    /\ \E s \in {<<>>, [a |-> Num(1)]} :
          aliasStore = [heap |-> <<createStore(s).state>>,
                        subscribers |-> createStore(s).subscribers]
    /\ aliasRefs = {}
    /\ aliasLog = [op |-> "createStore", n |-> 0]

AliasSetState(key, value) ==
    /\ aliasLog # NoValue
    /\ aliasLog.n < MaxAliasCalls
    /\ LET done == setState(StoreOf(aliasStore), key, value)
       IN  /\ aliasStore' = Written(aliasStore, done.store)
           /\ aliasRefs' = aliasRefs \cup HandedBy(done.notified)
           /\ aliasLog' = [op |-> "setState", n |-> aliasLog.n + 1,
                           notified |-> Len(done.notified)]

AliasUpdateState(partialState) ==
    /\ aliasLog # NoValue
    /\ aliasLog.n < MaxAliasCalls
    /\ LET done == updateState(StoreOf(aliasStore), partialState)
       IN  /\ aliasStore' = Written(aliasStore, done.store)
           /\ aliasRefs' = aliasRefs \cup HandedBy(done.notified)
           /\ aliasLog' = [op |-> "updateState", n |-> aliasLog.n + 1,
                           notified |-> Len(done.notified)]

AliasSubscribe(callback) ==
    /\ aliasLog # NoValue
    /\ aliasLog.n < MaxAliasCalls
    /\ aliasStore' = Written(aliasStore, subscribe(StoreOf(aliasStore), callback))
    /\ aliasLog' = [op |-> "subscribe", n |-> aliasLog.n + 1, notified |-> 0]
    /\ UNCHANGED aliasRefs

\* const s = store.getState()
AliasGetState ==
    /\ aliasLog # NoValue
    /\ aliasLog.n < MaxAliasCalls
    /\ LET got == getStateCopy(aliasStore)
       IN  /\ aliasStore' = got.objects
           /\ aliasRefs' = aliasRefs \cup {[ref |-> got.returned, from |-> "getState"]}
    /\ aliasLog' = [op |-> "getState", n |-> aliasLog.n + 1, notified |-> 0]

\* s[key] = value through a reference the caller holds
WriteHeld(r, key, value) ==
    /\ aliasLog # NoValue
    /\ aliasLog.n < MaxAliasCalls
    /\ r \in aliasRefs
    /\ aliasStore' = [aliasStore EXCEPT !.heap[r.ref] = With(@, key, value)]
    /\ aliasLog' = [op |-> "write", n |-> aliasLog.n + 1, notified |-> 0,
                    from |-> r.from]
    /\ UNCHANGED aliasRefs

AliasNext ==
    \/ \E key \in AliasKeys, value \in AliasValues : AliasSetState(key, value)
    \/ \E partialState \in AliasPartials : AliasUpdateState(partialState)
    \/ AliasSubscribe(Fn(1))
    \/ AliasGetState
    \/ \E ref \in 1..(MaxAliasCalls + 1), from \in {"getState", "subscriber"},
          key \in AliasKeys, value \in AliasValues :
          WriteHeld([ref |-> ref, from |-> from], key, value)

(***************************************************************************)
(* The to-do application (src/todoMVC/components/todoMain.js: todoStore,   *)
(* todoActions).  todoStore is the Proxy of createState: every assignment  *)
(* to one of its properties runs the set trap.  A todo is a record of id,  *)
(* text and completed; the todos array is an object with a reference of    *)
(* its own, and every action that assigns todos builds a new array.  An    *)
(* action is a sequence of statements: when one raises, the rest is not    *)
(* run.                                                                    *)
(***************************************************************************)
TodoArray(ref, items) == [k |-> "object", ref |-> ref, items |-> items]

Todo(id, text, completed) == [id |-> id, text |-> text, completed |-> completed]

\* the four todos loadTodosFromStorage and resetToDefaults build, with ids
\* from first on
DefaultTodos(first) ==
    <<Todo(first, "welcome to rashid TODO List", FALSE),
      Todo(first + 1, "click to toggle complete", FALSE),
      Todo(first + 2, "double click to edit", FALSE),
      Todo(first + 3, "click x to delete", FALSE)>>

\* an action that has run no statement yet
Begin(st) == [store |-> st, outcome |-> "returned"]

\* the statement todoStore[property] = value, after the statements that
\* gave s
todoWrite(s, property, value) ==
    IF s.outcome # "returned" THEN s
    ELSE LET trapped == stateSetTrap(s.store, property, value, <<>>)
         IN  [store |-> trapped.target, outcome |-> trapped.outcome]

\* todos.find(todo => todo.id === id): the first such todo, or NoValue for
\* undefined
find(todos, id) ==
    LET hits == {i \in 1..Len(todos) : todos[i].id = id}
    IN  IF hits = {} THEN NoValue
        ELSE todos[CHOOSE i \in hits : \A j \in hits : i <= j]

\* todoStore.editingId = null; todoStore.editingText = '';
clearEditing(s) ==
    todoWrite(todoWrite(s, "editingId", Null), "editingText", Str(""))

addTodo(st, text, now, ref) ==
    IF trim(text) = "" THEN Begin(st)
    ELSE todoWrite(
             todoWrite(Begin(st), "todos",
                       TodoArray(ref, Append(st.todos.items,
                                             Todo(now, trim(text), FALSE)))),
             "newTodo", Str(""))

\* toggleTodo(id): the debounce entry is set before the assignment and the
\* timer that deletes it after the assignment
toggleTodo(st, debounce, id, ref) ==
    IF id \in debounce.ids
    THEN [store |-> st, outcome |-> "returned", debounce |-> debounce]
    ELSE LET s == todoWrite(Begin(st), "todos",
                      TodoArray(ref, [i \in 1..Len(st.todos.items) |->
                          IF st.todos.items[i].id = id
                          THEN [st.todos.items[i] EXCEPT !.completed = ~@]
                          ELSE st.todos.items[i]]))
         IN  [store |-> s.store, outcome |-> s.outcome,
              debounce |-> [ids |-> debounce.ids \cup {id},
                            timers |-> IF s.outcome = "returned"
                                       THEN debounce.timers \cup {id}
                                       ELSE debounce.timers]]

deleteTodo(st, id, ref) ==
    LET s == IF StrictEquals(st.editingId, Num(id))
             THEN clearEditing(Begin(st)) ELSE Begin(st)
    IN  todoWrite(s, "todos",
                  TodoArray(ref, SelectSeq(s.store.todos.items,
                                           LAMBDA todo : todo.id # id)))

clearCompleted(st, ref) ==
    LET editingTodo == IF Truthy(st.editingId)
                       THEN find(st.todos.items, st.editingId.n) ELSE NoValue
        s == IF Truthy(st.editingId) /\ editingTodo # NoValue /\ editingTodo.completed
             THEN clearEditing(Begin(st)) ELSE Begin(st)
    IN  todoWrite(s, "todos",
                  TodoArray(ref, SelectSeq(s.store.todos.items,
                                           LAMBDA todo : ~todo.completed)))

startEditing(st, id) ==
    LET todo == find(st.todos.items, id)
    IN  IF todo # NoValue
        THEN todoWrite(todoWrite(Begin(st), "editingId", Num(id)),
                       "editingText", Str(todo.text))
        ELSE Begin(st)

updateEditingText(st, text) == todoWrite(Begin(st), "editingText", Str(text))

cancelEdit(st) == clearEditing(Begin(st))

saveEdit(st, id, ref) ==
    IF ~StrictEquals(st.editingId, Num(id)) THEN Begin(st)
    ELSE LET currentText == st.editingText
             trimmedText == trim(IF Truthy(currentText) THEN currentText.s ELSE "")
         IN  IF trimmedText = "" THEN cancelEdit(st)
             ELSE clearEditing(
                      todoWrite(Begin(st), "todos",
                          TodoArray(ref, [i \in 1..Len(st.todos.items) |->
                              IF st.todos.items[i].id = id
                              THEN [st.todos.items[i] EXCEPT !.text = trimmedText]
                              ELSE st.todos.items[i]])))

clearAllTodos(st, ref) ==
    clearEditing(todoWrite(Begin(st), "todos", TodoArray(ref, <<>>)))

resetToDefaults(st, now, ref) ==
    clearEditing(todoWrite(Begin(st), "todos", TodoArray(ref, DefaultTodos(now))))

(***************************************************************************)
(* The to-do specification: the actions called in any order.  Date.now()   *)
(* is one of two instants, later than every default id.                    *)
(***************************************************************************)
MaxTodoCalls == 3

CalledIds == {1, 2, 9}
Instants == {10, 11}
TypedTexts == {"buy milk", " "}

TodoIdle == todoStore = NoValue /\ toggleDebounce = NoValue /\ todoLog = NoValue

\* the module was evaluated with nothing in localStorage
TodoStart ==
    /\ todoStore = [todos |-> TodoArray(0, DefaultTodos(1)), newTodo |-> Str(""),
                    filter |-> Str("all"), editingId |-> Null,
                    editingText |-> Str("")]
    /\ toggleDebounce = [ids |-> {}, timers |-> {}]
    /\ todoLog = [op |-> "none", n |-> 0, outcome |-> "returned", aborted |-> {}]

\* a call of the action op that ran the statements giving s
Called(op, s) ==
    /\ todoLog # NoValue
    /\ todoLog.n < MaxTodoCalls
    /\ todoStore' = s.store
    /\ todoLog' = [op |-> op, n |-> todoLog.n + 1, outcome |-> s.outcome,
                   aborted |-> IF s.outcome = "returned" THEN todoLog.aborted
                               ELSE todoLog.aborted \cup {op}]

AddTodo(text, now) ==
    /\ todoLog # NoValue
    /\ Called("addTodo", addTodo(todoStore, text, now, todoLog.n + 1))
    /\ UNCHANGED toggleDebounce

ToggleTodo(id) ==
    /\ todoLog # NoValue
    /\ LET s == toggleTodo(todoStore, toggleDebounce, id, todoLog.n + 1)
       IN  /\ Called("toggleTodo", s)
           /\ toggleDebounce' = s.debounce

DeleteTodo(id) ==
    /\ todoLog # NoValue
    /\ Called("deleteTodo", deleteTodo(todoStore, id, todoLog.n + 1))
    /\ UNCHANGED toggleDebounce

ClearCompleted ==
    /\ todoLog # NoValue
    /\ Called("clearCompleted", clearCompleted(todoStore, todoLog.n + 1))
    /\ UNCHANGED toggleDebounce

StartEditing(id) ==
    /\ todoLog # NoValue
    /\ Called("startEditing", startEditing(todoStore, id))
    /\ UNCHANGED toggleDebounce

UpdateEditingText(text) ==
    /\ todoLog # NoValue
    /\ Called("updateEditingText", updateEditingText(todoStore, text))
    /\ UNCHANGED toggleDebounce

SaveEdit(id) ==
    /\ todoLog # NoValue
    /\ Called("saveEdit", saveEdit(todoStore, id, todoLog.n + 1))
    /\ UNCHANGED toggleDebounce

CancelEdit ==
    /\ todoLog # NoValue
    /\ Called("cancelEdit", cancelEdit(todoStore))
    /\ UNCHANGED toggleDebounce

ClearAllTodos ==
    /\ todoLog # NoValue
    /\ Called("clearAllTodos", clearAllTodos(todoStore, todoLog.n + 1))
    /\ UNCHANGED toggleDebounce

ResetToDefaults(now) ==
    /\ todoLog # NoValue
    /\ Called("resetToDefaults", resetToDefaults(todoStore, now, todoLog.n + 1))
    /\ UNCHANGED toggleDebounce

TodoNext ==
    \/ \E text \in TypedTexts, now \in Instants : AddTodo(text, now)
    \/ \E id \in CalledIds : ToggleTodo(id)
    \/ \E id \in CalledIds : DeleteTodo(id)
    \/ ClearCompleted
    \/ \E id \in CalledIds : StartEditing(id)
    \/ \E text \in TypedTexts : UpdateEditingText(text)
    \/ \E id \in CalledIds : SaveEdit(id)
    \/ CancelEdit
    \/ ClearAllTodos
    \/ \E now \in Instants : ResetToDefaults(now)

(***************************************************************************)
(* Properties.                                                             *)
(***************************************************************************)
IsPatchOp(r) == r.type \in {"NONE", "REPLACE", "TEXT", "UPDATE"}
IsVNode(v) == v.k = "vnode"
IsLeaf(v) == v.k \in {"string", "number"}
IsRaised(x) == "type" \in DOMAIN x

\* what of a host node counts for structural equivalence: tag, class, inline
\* style, dataset, content attributes, input state, text and children in order
RECURSIVE HostView(_)
HostView(node) ==
    IF node.nodeType = "text" THEN [text |-> node.data]
    ELSE [tag |-> node.localName, className |-> node.className,
          style |-> node.style, dataset |-> node.dataset,
          attributes |-> node.attributes,
          checked |-> node.checked, value |-> node.value,
          children |-> [i \in 1..Len(node.childNodes) |-> HostView(node.childNodes[i])]]

\* C1: after patch(render(A), diff(A, B)) on a root that has a parent, the
\* host tree has the tag, attributes, text and child order of render(B).
C1_Convergence ==
    (patchPc = "patched" /\ patchHost.hasParent)
        => /\ ~IsRaised(patchHost.node)
           /\ HostView(patchHost.node) = HostView(render(patchB))

\* a virtual tree with the identity of its style/data mappings erased
EraseRef(value) == IF value.k = "object" THEN [value EXCEPT !.ref = 0] ELSE value
RECURSIVE Structure(_)
Structure(v) ==
    IF ~IsVNode(v) THEN v
    ELSE [k |-> "vnode", tag |-> v.tag,
          attributes |-> [i \in 1..Len(v.attributes) |->
                             Attr(v.attributes[i].key, EraseRef(v.attributes[i].value))],
          children |-> [i \in 1..Len(v.children) |-> Structure(v.children[i])]]

\* C2 as stated: diff of two trees with identical tag, attributes and
\* children is NONE, also when attribute values are style/data mappings
\* built separately with the same content.
C2_DiffIdentityStructural ==
    (diffPc = "diff" /\ (IsVNode(oldVNode) \/ IsLeaf(oldVNode))
     /\ Structure(oldVNode) = Structure(newVNode))
        => diffResult = NONE

\* C2 amended: diff(V, V) is NONE, and so is the diff of two trees whose
\* tags and children are identical and whose attribute values are the same
\* primitives or the very same mapping or function objects.
C2_DiffIdentity ==
    (diffPc = "diff" /\ (IsVNode(oldVNode) \/ IsLeaf(oldVNode))
     /\ oldVNode = newVNode)
        => diffResult = NONE

C2_Witness ==
    /\ diffPc = "diff"
    /\ oldVNode = newVNode
    /\ IsVNode(oldVNode)
    /\ \E i \in 1..Len(oldVNode.attributes) : oldVNode.attributes[i].value.k = "object"
    /\ diffResult = NONE

\* C3: diff returns a PatchOp for every pair of inputs, null and undefined
\* included; it never raises.
C3_DiffTotal == diffPc = "diff" => IsPatchOp(diffResult)

\* C4: two virtual nodes with different tags diff to REPLACE{new}, whatever
\* their attributes and children.
C4_TagMismatchReplaces ==
    (diffPc = "diff" /\ IsVNode(oldVNode) /\ IsVNode(newVNode)
     /\ oldVNode.tag # newVNode.tag)
        => diffResult = REPLACE(newVNode)

C4_Witness ==
    /\ diffPc = "diff"
    /\ IsVNode(oldVNode) /\ IsVNode(newVNode)
    /\ oldVNode.tag # newVNode.tag
    /\ oldVNode.attributes = newVNode.attributes
    /\ Len(oldVNode.attributes) > 0
    /\ oldVNode.children = newVNode.children
    /\ diffResult = REPLACE(newVNode)

\* C5: at an index present in both child lists, when either child carries a
\* key and the two keys differ (an absent key counting as a value), the
\* patch is REPLACE{newChild}.
C5_KeyedOverride ==
    diffPc = "diffChildren" =>
        \A i \in 1..Len(oldVNode.children) :
            (/\ i <= Len(newVNode.children)
             /\ \/ KeyOf(oldVNode.children[i]) # Undefined
                \/ KeyOf(newVNode.children[i]) # Undefined
             /\ KeyOf(oldVNode.children[i]) # KeyOf(newVNode.children[i]))
                => /\ i <= Len(childResult)
                   /\ childResult[i] = REPLACE(newVNode.children[i])

PatchesFor(patches, key) == SelectSeq(patches, LAMBDA p : p.key = key)

\* C6: for checked, disabled and selected, a falsy new value that differs
\* from the old one yields REMOVE_ATTRIBUTE{key} and no SET_ATTRIBUTE.
C6_BooleanAttributes ==
    diffPc = "diffAttributes" =>
        \A key \in {"checked", "disabled", "selected"} :
            (/\ ~Truthy(Get(newVNode.attributes, key))
             /\ ~StrictEquals(Get(oldVNode.attributes, key),
                              Get(newVNode.attributes, key)))
                => PatchesFor(attrResult, key) = <<REMOVE_ATTRIBUTE(key)>>

C6_Witness ==
    /\ diffPc = "diffAttributes"
    /\ Get(oldVNode.attributes, "checked") = Bool(TRUE)
    /\ Get(newVNode.attributes, "checked") = Bool(FALSE)
    /\ attrResult = <<REMOVE_ATTRIBUTE("checked")>>

\* C7 as stated: two text/number leaves diff to TEXT{new} when the values
\* differ and to NONE when they are equal.
C7_TextLeavesAnyTypes ==
    (diffPc = "diff" /\ IsLeaf(oldVNode) /\ IsLeaf(newVNode))
        => diffResult = IF oldVNode = newVNode THEN NONE ELSE TEXT(newVNode)

\* C7 amended: two leaves of the same type (both strings or both numbers)
\* diff to TEXT{new} when the values differ and to NONE when they are equal;
\* a string against a number diffs to REPLACE{new}.
C7_TextLeaves ==
    (diffPc = "diff" /\ IsLeaf(oldVNode) /\ IsLeaf(newVNode))
        => diffResult = IF oldVNode.k # newVNode.k THEN REPLACE(newVNode)
                        ELSE IF oldVNode = newVNode THEN NONE
                        ELSE TEXT(newVNode)

C7_Witness ==
    /\ diffPc = "diff"
    /\ oldVNode = Str("a") /\ newVNode = Str("1")
    /\ diffResult = TEXT(Str("1"))

\* B is A with children added at the end of the root's child list
Extends(A, B) ==
    /\ IsVNode(A) /\ IsVNode(B)
    /\ A.tag = B.tag
    /\ A.attributes = B.attributes
    /\ Len(B.children) > Len(A.children)
    /\ SubSeq(B.children, 1, Len(A.children)) = A.children

\* C8: appendTo(A, C) on an unmounted container followed by appendTo(B, C),
\* B extending A, leaves one root whose host children are B's children in
\* order; the patch is NONE at every shared index, one APPEND_CHILD per
\* added child, and holds no REPLACE.
C8_IncrementalMount ==
    (mountLog # NoValue /\ mountLog.nth = 2 /\ mountLog.outcome = "returned"
     /\ Extends(mountLog.prev, container.currentVNode))
        => LET A == mountLog.prev
               B == container.currentVNode
           IN  /\ Len(container.childNodes) = 1
               /\ container.childNodes[1].nodeType = "element"
               /\ container.childNodes[1].localName = B.tag
               /\ container.childNodes[1].childNodes
                      = [i \in 1..Len(B.children) |-> render(B.children[i])]
               /\ mountLog.patches.type = "UPDATE"
               /\ mountLog.patches.attributes = <<>>
               /\ mountLog.patches.children
                      = [i \in 1..Len(B.children) |->
                            IF i <= Len(A.children) THEN NONE
                            ELSE APPEND_CHILD(B.children[i])]

C8_Witness ==
    /\ mountLog # NoValue /\ mountLog.nth = 2 /\ mountLog.outcome = "returned"
    /\ Extends(mountLog.prev, container.currentVNode)
    /\ Len(mountLog.prev.children) = 1
    /\ Len(mountLog.prev.attributes) > 0
    /\ Len(container.childNodes[1].childNodes) = 2

\* the master handler of event type t is the element's on<t> property
ListenerInstalled(element, t) ==
    LET propName == "on" \o toLowerCase(t)
    IN  propName \in DOMAIN element.on /\ element.on[propName] = t

HandlerSetNonEmpty(element, t) ==
    t \in DOMAIN element.handlers /\ Len(element.handlers[t]) > 0

\* the element's on<t> property holds a master handler
PropertySet(element, t) == ("on" \o toLowerCase(t)) \in DOMAIN element.on

\* C9: for every element and event-type string, a physical listener is
\* installed for that type iff the registry's handler set for the pair is
\* non-empty: the master handler of a type is installed only while its set
\* is non-empty, and while the set is non-empty the on<type> property holds
\* a listener.
C9_RegistryInvariant ==
    calls # NoValue =>
        \A e \in ElementIds, t \in EventTypes :
            /\ ListenerInstalled(elements[e], t) => HandlerSetNonEmpty(elements[e], t)
            /\ HandlerSetNonEmpty(elements[e], t) => PropertySet(elements[e], t)

RECURSIVE SumOver(_, _)
SumOver(f, S) ==
    IF S = {} THEN 0
    ELSE LET x == CHOOSE y \in S : TRUE IN f[x] + SumOver(f, S \ {x})

\* attach calls of (e, t) not yet answered by a matching detach call
PendingTotal(e, t) == SumOver(calls.pending[e][t], Handlers)
PendingHandlers(e, t) == {h \in Handlers : calls.pending[e][t][h] > 0}

\* what the claim says of the pair (e, t) in the current state
LifecycleHolds(e, t) ==
    /\ PendingTotal(e, t) = 0 => ~ListenerInstalled(elements[e], t)
    /\ PendingTotal(e, t) = 1 =>
          /\ ListenerInstalled(elements[e], t)
          /\ \E h \in PendingHandlers(e, t) :
                MasterInvokes(elements[e], "on" \o toLowerCase(t)) = <<h>>

\* every call made on e whose type names the same on<type> property as t
\* used the type string t: the calls are all for the one pair (e, t)
SamePair(e, t) ==
    \A u \in calls.used[e] : toLowerCase(u) = toLowerCase(t) => u = t

\* every attach of (e, t) was of a handler not attached at that moment
DistinctHandlers(e, t) == t \notin calls.repeated[e]

\* C10 as stated: after N attach and N matching detach calls for the same
\* (e, t) no physical listener remains; after N attach and N-1 detach calls
\* one remains and firing it invokes the surviving handler only.
C10_LifecycleAnyHandlers ==
    calls # NoValue =>
        \A e \in ElementIds, t \in EventTypes :
            SamePair(e, t) => LifecycleHolds(e, t)

\* C10 amended: the same for N attach calls of pairwise distinct handlers
\* (attaching a handler that is already attached adds nothing, so its first
\* detach removes it); the first half holds for any handlers and any calls.
C10_Lifecycle ==
    calls # NoValue =>
        \A e \in ElementIds, t \in EventTypes :
            /\ PendingTotal(e, t) = 0 => ~ListenerInstalled(elements[e], t)
            /\ (SamePair(e, t) /\ DistinctHandlers(e, t)) => LifecycleHolds(e, t)

C10_Witness ==
    /\ calls # NoValue /\ fired # NoValue
    /\ calls.n = 3
    /\ calls.pending["e1"]["click"] = [h \in Handlers |-> IF h = Fn(2) THEN 1 ELSE 0]
    /\ SamePair("e1", "click") /\ DistinctHandlers("e1", "click")
    /\ DOMAIN elements["e1"].on = {"onclick"}
    /\ fired.element = "e1" /\ fired.propName = "onclick"
    /\ fired.invoked = <<Fn(2)>>

(***************************************************************************)
(* Properties of the dispatch specification.                               *)
(***************************************************************************)
\* C11: a dispatch that returns has invoked exactly the handlers that were
\* in the set when the listener fired, each once and in insertion order,
\* whatever attach or detach calls the handlers made meanwhile.
C11_DispatchSnapshot ==
    dispatch.pc = "returned" => dispatch.invoked = dispatch.snapshot

\* C20: when no handler attaches or detaches during a dispatch, every
\* handler of the set is invoked in it, also when one of them throws.
C20_SiblingsInvoked ==
    (dispatch.pc \in {"returned", "raised"} /\ dispatch.during = 0) =>
        \A i \in 1..Len(dispatch.snapshot) :
            IndexOf(dispatch.invoked, dispatch.snapshot[i]) > 0

(***************************************************************************)
(* Properties of the store specification.                                  *)
(***************************************************************************)
\* how often the last call invoked the subscriber cb
NotifiedCount(cb) ==
    Cardinality({i \in 1..Len(storeLog.notified) : storeLog.notified[i].callback = cb})

\* C12: setState(key, v) notifies the subscribers, each once, when v is not
\* the value stored under key, and nobody when it is; of two calls in a row
\* with the same v the second notifies nobody, so the two together notify
\* once if v differed from the value stored before them and never if not.
C12_NoOpWriteSuppressesNotify ==
    storeLog.op = "setState" =>
        LET differs == ~StrictEquals(GetProp(storeLog.before, storeLog.key),
                                     storeLog.value)
            repeats == /\ storeLog.prev.op = "setState"
                       /\ storeLog.prev.key = storeLog.key
                       /\ StrictEquals(storeLog.prev.value, storeLog.value)
        IN  /\ \A cb \in Handlers :
                  NotifiedCount(cb) =
                      IF differs /\ IndexOf(store.subscribers, cb) > 0 THEN 1 ELSE 0
            /\ repeats =>
                  /\ storeLog.notified = <<>>
                  /\ storeLog.prev.notified =
                        IF StrictEquals(storeLog.prev.before, storeLog.value) THEN 0
                        ELSE Len(store.subscribers)

\* a second setState("a", Shared2) in a row, the first of which replaced an
\* object of equal contents and notified both subscribers
C12_Witness ==
    /\ storeLog.op = "setState"
    /\ storeLog.key = "a" /\ storeLog.value = Shared2
    /\ storeLog.prev.op = "setState"
    /\ storeLog.prev.key = "a" /\ storeLog.prev.value = Shared2
    /\ storeLog.prev.before = Shared1
    /\ storeLog.prev.notified = 2
    /\ Len(store.subscribers) = 2
    /\ storeLog.notified = <<>>

\* C13: updateState(partial) invokes each subscriber at most once, invokes
\* any only if some key of partial changed value, and every subscriber it
\* invokes is handed a state in which every key of partial holds its value.
C13_UpdateStateNotifiesOnce ==
    storeLog.op = "updateState" =>
        /\ \A cb \in Handlers : NotifiedCount(cb) <= 1
        /\ storeLog.notified # <<>> =>
              \E key \in DOMAIN storeLog.partial :
                  ~StrictEquals(GetProp(storeLog.before, key), storeLog.partial[key])
        /\ \A i \in 1..Len(storeLog.notified) :
              \A key \in DOMAIN storeLog.partial :
                  StrictEquals(GetProp(storeLog.notified[i].state, key),
                               storeLog.partial[key])

\* an updateState of two keys, one of which changed, that notified both
\* subscribers once
C13_Witness ==
    /\ storeLog.op = "updateState"
    /\ DOMAIN storeLog.partial = {"a", "b"}
    /\ GetProp(storeLog.before, "a") = storeLog.partial["a"]
    /\ GetProp(storeLog.before, "b") # storeLog.partial["b"]
    /\ Len(storeLog.notified) = 2
    /\ NotifiedCount(Fn(1)) = 1 /\ NotifiedCount(Fn(2)) = 1

(***************************************************************************)
(* Properties of the bus specification.                                    *)
(***************************************************************************)
\* the handlers subscribed to name, in subscription order
Subscribed(name) ==
    IF name \in DOMAIN customEvents THEN customEvents[name] ELSE <<>>

\* the handlers a call invoked, in the order of the calls
InvokedCallbacks(made) == [i \in 1..Len(made) |-> made[i].callback]

\* C14: a write of a different value to the reactive state commits the
\* value, returns without raising and has called every handler subscribed
\* to 'stateChange'.
C14_WriteNotifies ==
    (busLog.op = "write"
        /\ ~StrictEquals(GetProp(busLog.before, busLog.property), busLog.value)) =>
        /\ GetProp(globalState, busLog.property) = busLog.value
        /\ busLog.outcome = "returned"
        /\ InvokedCallbacks(busLog.invoked) = Subscribed("stateChange")

\* the on() calls for name whose returned function was not called, when
\* no handler was passed to on twice: the handlers they subscribed
LiveCalls(name) ==
    SelectSeq(subscriptions, LAMBDA s : s.name = name /\ ~s.called)

NoHandlerTwice ==
    \A i, j \in 1..Len(subscriptions) :
        (i # j /\ subscriptions[i].name = subscriptions[j].name) =>
            subscriptions[i].callback # subscriptions[j].callback

\* C17: emit(name, data) has, when it returns, called the handlers
\* subscribed to name, each once with data, in subscription order, and no
\* other handler; a handler subscribed to another name only is not called.
C17_EmitInvokesSubscribers ==
    busLog.op = "emit" =>
        /\ InvokedCallbacks(busLog.invoked) = Subscribed(busLog.name)
        /\ \A i, j \in 1..Len(busLog.invoked) :
              i # j => busLog.invoked[i].callback # busLog.invoked[j].callback
        /\ \A i \in 1..Len(busLog.invoked) :
              /\ busLog.invoked[i].data = busLog.data
              /\ \E s \in 1..Len(subscriptions) :
                    /\ subscriptions[s].name = busLog.name
                    /\ subscriptions[s].callback = busLog.invoked[i].callback
        /\ NoHandlerTwice =>
              InvokedCallbacks(busLog.invoked) =
                  [i \in 1..Len(LiveCalls(busLog.name)) |->
                      LiveCalls(busLog.name)[i].callback]

\* emit('saved') with Fn(2) then Fn(1) subscribed to it
C17_Witness ==
    /\ busLog.op = "emit" /\ busLog.name = "saved"
    /\ Len(subscriptions) = 2
    /\ subscriptions[1] = [name |-> "saved", callback |-> Fn(2), called |-> FALSE]
    /\ subscriptions[2] = [name |-> "saved", callback |-> Fn(1), called |-> FALSE]
    /\ InvokedCallbacks(busLog.invoked) = <<Fn(2), Fn(1)>>

\* C18: when a handler throws during emit(name, data), the other handlers
\* subscribed to name are called all the same and emit returns normally.
C18_EmitIsolatesFailures ==
    busLog.op = "emit" =>
        /\ busLog.outcome = "returned"
        /\ \A i \in 1..Len(Subscribed(busLog.name)) :
              IndexOf(InvokedCallbacks(busLog.invoked), Subscribed(busLog.name)[i]) > 0

\* emit('saved') whose first handler threw: the second was called
C18_Witness ==
    /\ busLog.op = "emit" /\ busLog.name = "saved"
    /\ Subscribed("saved") = <<Fn(1), Fn(2)>>
    /\ busLog.throwing = {Fn(1)}
    /\ Len(busLog.invoked) = 2
    /\ busLog.invoked[1].raised /\ busLog.invoked[2].callback = Fn(2)
    /\ busLog.outcome = "returned"

\* C19: a call of an unsubscribe function that was called before changes
\* nothing.
C19_UnsubscribeIdempotent ==
    (busLog.op = "unsubscribe" /\ busLog.repeated) => customEvents = busLog.before

(***************************************************************************)
(* Properties of the component specification.                              *)
(***************************************************************************)
\* the states the target passes through under a list of writes, the
\* starting state first
RECURSIVE StatesUnder(_, _)
StatesUnder(state, writes) ==
    IF Len(writes) = 0 THEN <<state>>
    ELSE <<state>> \o StatesUnder(With(state, Head(writes).key, Head(writes).value),
                                  Tail(writes))

\* the writes of the list that change the value stored, by position
ChangingWrites(state, writes) ==
    LET states == StatesUnder(state, writes)
    IN  SelectSeq([i \in 1..Len(writes) |-> i],
                  LAMBDA i : ~StrictEquals(GetProp(states[i], writes[i].key),
                                           writes[i].value))

\* the mounted button as the host shows it
Shown == HostView(component.host.childNodes[1])

\* C15: on a mounted component, the writes of one call stack have run, when
\* they return, one render/diff/patch cycle per write that changed a value
\* and none for a write of an equal value: the i-th cycle rendered the
\* state its write left, diffed it against the tree rendered before it,
\* and the host shows the tree the last cycle rendered.
C15_WriteRerenders ==
    (componentLog.op = "write" /\ componentLog.before.container = "host") =>
        LET before == componentLog.before
            writes == componentLog.writes
            states == StatesUnder(before.target, writes)
            changing == ChangingWrites(before.target, writes)
            cycles == componentLog.cycles
        IN  /\ Len(cycles) = Len(changing)
            /\ \A i \in 1..Len(cycles) :
                  /\ cycles[i].new =
                        renderFn(states[changing[i] + 1], "target", before.passes + i)
                  /\ cycles[i].old =
                        IF i = 1 THEN before.currentVNode ELSE cycles[i - 1].new
            /\ Len(cycles) > 0 =>
                  /\ component.currentVNode = cycles[Len(cycles)].new
                  /\ Shown = HostView(render(cycles[Len(cycles)].new))
            /\ Len(cycles) = 0 => component.host = before.host

\* two changing writes in one call stack ran two cycles
C15_Witness ==
    /\ componentLog.op = "write"
    /\ componentLog.before.container = "host"
    /\ componentLog.writes = <<Attr("count", Num(1)), Attr("label", Str("b"))>>
    /\ componentLog.before.target = [count |-> Num(0), label |-> Str("a")]
    /\ Len(componentLog.cycles) = 2
    /\ Shown.className = "b"
    /\ Shown.children = <<[text |-> "1"]>>

\* C16: after a write made through a state object the render function was
\* given, by code that holds the first pass's object or by a click handler
\* of any pass, the mounted host tree is the materialization of the render
\* function applied to the current state.
C16_WritesIntercepted ==
    (componentLog.op \in {"write", "click"} /\ component.container = "host") =>
        Shown = HostView(render(renderFn(component.target, "target", 0)))

(***************************************************************************)
(* Further properties of the mount specification.                          *)
(***************************************************************************)
\* C24: appendTo into a container that cannot be found does not raise (and
\* leaves the container and its mount record as they were): no appendTo
\* call ends with an exception.
C24_MissingContainerNoRaise ==
    mountLog.outcome # "Error"

(***************************************************************************)
(* Properties of the delegation specification.                             *)
(***************************************************************************)
\* the chain origin, parent of origin, ... up to the document element
RECURSIVE AncestorsOrSelf(_)
AncestorsOrSelf(element) ==
    IF element \in DOMAIN Parent
    THEN <<element>> \o AncestorsOrSelf(Parent[element])
    ELSE <<element>>

HasClass(element, selector) ==
    \E cls \in ClassList[element] : selector = "." \o cls

\* the nearest ancestor-or-self of origin that matches selector, or "null"
NearestMatch(origin, selector) ==
    LET chain == AncestorsOrSelf(origin)
        hits == {i \in 1..Len(chain) : HasClass(chain[i], selector)}
    IN  IF hits = {} THEN "null"
        ELSE chain[CHOOSE i \in hits : \A j \in hits : i <= j]

\* the elements the container holds, itself included (Node.contains)
Inside(containerEl) ==
    {e \in DOMAIN ClassList : \E i \in 1..Len(AncestorsOrSelf(e)) :
        AncestorsOrSelf(e)[i] = containerEl}

\* the delegations of record i that are attached: made on a container that
\* exists and not cleaned up
Attached(i) ==
    /\ ~delegations[i].cleanup.inert
    /\ delegations[i].cleaned = 0

\* C21: when an event fires on the container, each attached delegation of
\* that event type invokes its handler if and only if the nearest
\* ancestor-or-self of the event's origin that matches the selector exists
\* and lies in the container (the container itself included); it is then
\* invoked exactly once, with the matched element as receiver and as
\* explicit argument.
C21_DelegateInvokesOnMatch ==
    delegLog.op = "fire" =>
        \A i \in 1..Len(delegations) :
            (Attached(i) /\ delegations[i].cleanup.eventType = delegLog.type) =>
                LET d == delegations[i].cleanup.handler
                    runs == SelectSeq(delegLog.invoked, LAMBDA r : r.by = d)
                    matched == NearestMatch(delegLog.origin, d.selector)
                IN  /\ Len(runs) = 1
                    /\ runs[1].calls =
                          IF matched # "null" /\ matched \in Inside("box")
                          THEN <<[handler |-> d.handler, receiver |-> matched,
                                  argument |-> matched]>>
                          ELSE <<>>

\* a fire in which one delegation matched inside the container, one matched
\* an element outside it only, and the fire of a delegation whose match is
\* the container itself
C21_Witness ==
    /\ delegLog.op = "fire"
    /\ \E i, j \in 1..Len(delegLog.invoked) :
          /\ "selector" \in DOMAIN delegLog.invoked[i].by
          /\ "selector" \in DOMAIN delegLog.invoked[j].by
          /\ Len(delegLog.invoked[i].calls) = 1
          /\ delegLog.invoked[j].calls = <<>>
          /\ NearestMatch(delegLog.origin, delegLog.invoked[j].by.selector) = "outer"

\* C22: a call of the cleanup function of one delegateEvent call takes
\* exactly that call's delegated handler off the container: for every event
\* type the handlers the container invokes afterwards are the ones it
\* invoked before, in the same order, without that one; a second call of
\* the cleanup function changes nothing.
C22_CleanupDetachesOwnDelegation ==
    (delegLog.op = "cleanup" /\ ~delegations[delegLog.index].cleanup.inert) =>
        LET own == delegations[delegLog.index].cleanup.handler
        IN  /\ \A t \in DelegateTypes :
                  MasterInvokes(delegEl, "on" \o t) =
                      SelectSeq(MasterInvokes(delegLog.before, "on" \o t),
                                LAMBDA h : h # own)
            /\ delegations[delegLog.index].cleaned = 2 => delegEl = delegLog.before

\* the cleanup of one delegation was called while another delegation of the
\* same user handler, type and selector and a plain handler were attached
C22_Witness ==
    /\ delegLog.op = "cleanup"
    /\ delegations[delegLog.index].cleaned = 1
    /\ delegEl # delegLog.before
    /\ \E n \in 1..Len(MasterInvokes(delegEl, "onclick")) :
          MasterInvokes(delegEl, "onclick")[n] = PlainHandler
    /\ \E i \in 1..Len(delegations) :
          /\ i # delegLog.index
          /\ Attached(i)
          /\ delegations[i].cleanup.eventType =
                 delegations[delegLog.index].cleanup.eventType
          /\ delegations[i].cleanup.handler.handler =
                 delegations[delegLog.index].cleanup.handler.handler
          /\ delegations[i].cleanup.handler.selector =
                 delegations[delegLog.index].cleanup.handler.selector

\* the cleanup of one delegation was called a second time
C22_WitnessSecondCall ==
    /\ delegLog.op = "cleanup"
    /\ delegations[delegLog.index].cleaned = 2
    /\ ~delegations[delegLog.index].cleanup.inert
    /\ delegEl.has

\* C23: delegateEvent called with a container that does not exist installs
\* no listener and leaves the handler registry unchanged, and a call of the
\* cleanup function it returns changes nothing either.
C23_MissingContainerNoOp ==
    (delegLog.op \in {"delegate", "cleanup"} /\
     ResolveContainer(delegations[delegLog.index].c) = "null") =>
        delegEl = delegLog.before

\* delegateEvent was called with a selector that finds no container while
\* a delegation of the same type was attached, and its cleanup was called
C23_Witness ==
    /\ delegLog.op = "cleanup"
    /\ delegations[delegLog.index].c = "#missing"
    /\ \E i \in 1..Len(delegations) : Attached(i)

(***************************************************************************)
(* Properties of the registration specification.                           *)
(***************************************************************************)
\* what each key of ConfigKeys names: its event type and its selector, ""
\* for a part the key does not have
KeyMeaning ==
    [key \in ConfigKeys |->
        CASE key = "click:.a" -> [eventType |-> "click", selector |-> ".a"]
          [] key = " keydown : .c " -> [eventType |-> "keydown", selector |-> ".c"]
          [] key = "click" -> [eventType |-> "click", selector |-> ""]
          [] key = ":.b" -> [eventType |-> "", selector |-> ".b"]
          [] key = "click: " -> [eventType |-> "click", selector |-> ""]]

\* the entries of an event map whose key has both parts, in order
Complete(eventMap) ==
    SelectSeq(eventMap, LAMBDA entry : /\ KeyMeaning[entry.key].eventType # ""
                                       /\ KeyMeaning[entry.key].selector # "")

\* the delegated handlers among the handlers the container invokes for t
DelegatedOn(element, t) ==
    SelectSeq(MasterInvokes(element, "on" \o t), LAMBDA h : "selector" \in DOMAIN h)

\* the (selector, user handler) pairs of a sequence of delegated handlers
Targets(hs) == [i \in 1..Len(hs) |-> <<hs[i].selector, hs[i].handler>>]

\* the pairs the complete entries of an event map name for type t
Named(eventMap, t) ==
    LET entries == SelectSeq(Complete(eventMap),
                             LAMBDA entry : KeyMeaning[entry.key].eventType = t)
    IN  [i \in 1..Len(entries) |->
            <<KeyMeaning[entries[i].key].selector, entries[i].value>>]

\* C25: registerEvents on a container that exists registers one delegation
\* for every key that has both an event type and a selector and none for a
\* key missing either, next to what was attached before; the cleanup
\* function it returns detaches every delegation it registered and no other
\* handler, so the container is as it was before registerEvents, with the
\* handlers attached since.
C25_RegisterEventsPerKey ==
    /\ (delegLog.op = "register" /\ ResolveContainer(registrations[1].c) # "null") =>
          /\ \A t \in DelegateTypes :
                /\ Targets(DelegatedOn(delegEl, t)) =
                       Targets(DelegatedOn(delegLog.before, t))
                       \o Named(registrations[1].eventMap, t)
                /\ SelectSeq(MasterInvokes(delegEl, "on" \o t),
                             LAMBDA h : "selector" \notin DOMAIN h)
                   = SelectSeq(MasterInvokes(delegLog.before, "on" \o t),
                               LAMBDA h : "selector" \notin DOMAIN h)
          /\ DOMAIN delegEl.handlers \subseteq DelegateTypes
          /\ Len(registrations[1].cleanups) = Len(Complete(registrations[1].eventMap))
    /\ delegLog.op = "cleanupRegistered" =>
          \A t \in DelegateTypes :
              MasterInvokes(delegEl, "on" \o t) =
                  SelectSeq(MasterInvokes(delegLog.before, "on" \o t),
                            LAMBDA h : \A n \in 1..Len(registrations[1].cleanups) :
                                          h # registrations[1].cleanups[n].handler)

\* the cleanup function of a registerEvents call that registered two
\* delegations and skipped no key, or registered one and skipped one, was
\* called, detached something and left the earlier delegation and the plain
\* handler attached
C25_Witness ==
    /\ delegLog.op = "cleanupRegistered"
    /\ registrations[1].cleaned = 1
    /\ Len(registrations[1].eventMap) = 2
    /\ Len(registrations[1].cleanups) = 1
    /\ delegEl # delegLog.before
    /\ Len(MasterInvokes(delegEl, "onclick")) = 2

(***************************************************************************)
(* Properties of the identity specification.                               *)
(***************************************************************************)
NodeIds(childNodes) == {childNodes[i].id : i \in 1..Len(childNodes)}

\* C26: patch on a host node that has a parent returns the node that is at
\* the patched position afterwards: the input node, with nothing changed
\* anywhere, for NONE; the input node for TEXT and UPDATE; for REPLACE a
\* node that did not exist before, rendered from the new virtual node and
\* placed at the index of the node it replaced under the same parent, the
\* old node being in the tree no more.  The siblings stay where they were.
C26_PatchReturnsOccupant ==
    patchLog.op = "patch" =>
        LET i == patchLog.index
            before == patchLog.before
            after == hostParent.childNodes
        IN  /\ Len(after) = Len(before)
            /\ \A j \in 1..Len(before) : j # i => after[j] = before[j]
            /\ patchLog.returned = after[i].id
            /\ patchLog.patches.type = "NONE" =>
                  /\ patchLog.returned = before[i].id
                  /\ after = before
            /\ patchLog.patches.type \in {"TEXT", "UPDATE"} =>
                  patchLog.returned = before[i].id
            /\ patchLog.patches.type = "REPLACE" =>
                  /\ patchLog.returned \notin NodeIds(before)
                  /\ after[i].node = render(patchLog.patches.newVNode)
                  /\ before[i].id \notin NodeIds(after)

\* a REPLACE was applied to the second of two children
C26_Witness ==
    /\ patchLog.op = "patch"
    /\ patchLog.patches.type = "REPLACE"
    /\ patchLog.index = 2
    /\ patchLog.returned = hostParent.childNodes[2].id
    /\ hostParent.childNodes[1] = patchLog.before[1]

\* NONE, TEXT and UPDATE patches were applied
C26_WitnessInPlace ==
    /\ patchLog.op = "patch"
    /\ patchLog.patches.type = "UPDATE"
    /\ hostParent.childNodes[patchLog.index].node # patchLog.before[patchLog.index].node

(***************************************************************************)
(* Properties of the throttle specification.                               *)
(***************************************************************************)
Positions(kind) ==
    {i \in 1..Len(history.entries) : history.entries[i].kind = kind}

\* the position at which the scroll event an invocation hands over arrived
ArrivalOf(i) ==
    CHOOSE a \in Positions("scroll") :
        history.entries[a].event = history.entries[i].event

\* C27: two invocations of the user handler are at least one delay apart
\* and each is at least one delay after its event; an event that arrived
\* between the arrival of another event and the invocation for that event
\* (while that invocation was pending) is never handed to the handler, and
\* no event is handed over twice; no invocation comes after a call of the
\* cleanup function.
C27_Throttled ==
    /\ \A i, j \in Positions("invoke") :
          i < j => /\ history.entries[j].at - history.entries[i].at >= throttle.delay
                   /\ history.entries[j].event # history.entries[i].event
    /\ \A i \in Positions("invoke") :
          /\ \E a \in Positions("scroll") :
                /\ a < i
                /\ history.entries[a].event = history.entries[i].event
          /\ history.entries[i].at - history.entries[ArrivalOf(i)].at >= throttle.delay
          /\ \A j \in Positions("invoke"), a \in Positions("scroll") :
                (ArrivalOf(i) < a /\ a < i)
                    => history.entries[j].event # history.entries[a].event
    /\ \A i \in Positions("invoke"), c \in Positions("cleanup") : i < c

\* an event that arrived while an invocation was pending was dropped, the
\* invocation happened, and the cleanup function was called while the timer
\* of a later event was pending
C27_Witness ==
    /\ \E i \in Positions("invoke"), a \in Positions("scroll") :
          ArrivalOf(i) < a /\ a < i
    /\ \E c \in Positions("cleanup") :
          /\ c > 1
          /\ history.entries[c - 1].kind = "scroll"
          /\ throttle.timeoutId # 0
          /\ throttle.timers = {}

\* the handler was invoked twice
C27_WitnessTwice ==
    Cardinality(Positions("invoke")) = 2

\* an invocation of the user handler for the event at position s is on its
\* way or has happened: the host holds a timer of the throttle, or the
\* handler was invoked after the event arrived
Served(s) ==
    \/ throttle.timers # {}
    \/ \E i \in Positions("invoke") : i > s

\* C39: while the cleanup function has not been called, every event
\* delivered to the listener is followed by an invocation of the user
\* handler, the pending one or a new one, whether or not an earlier
\* invocation raised an error: at every moment an invocation for it has
\* happened or is pending.
C39_DeliveredEventServed ==
    (throttle # NoValue /\ Positions("cleanup") = {}) =>
        \A s \in Positions("scroll") : Served(s)

\* the same while no invocation of the user handler has raised an error,
\* which holds
C39_ServedWhileNoError ==
    (/\ throttle # NoValue
     /\ Positions("cleanup") = {}
     /\ \A i \in Positions("invoke") : ~history.entries[i].raised) =>
        \A s \in Positions("scroll") : Served(s)

\* two events were served by two invocations that did not raise, and a third
\* event waits for its timer
C39_ServedWitness ==
    /\ Positions("cleanup") = {}
    /\ Cardinality(Positions("invoke")) = 2
    /\ \A i \in Positions("invoke") : ~history.entries[i].raised
    /\ throttle.timers # {}

(***************************************************************************)
(* A further property of the component specification.                      *)
(***************************************************************************)
\* C29: after a state write on a mounted component has patched the
\* container's host tree, the container's mount record (_currentVNode) is
\* the virtual tree that was applied last.
C29_MountRecordCurrent ==
    (/\ componentLog.op = "write"
     /\ componentLog.before.container = "host"
     /\ Len(componentLog.cycles) > 0) =>
        component.host.currentVNode =
            componentLog.cycles[Len(componentLog.cycles)].new

(***************************************************************************)
(* Properties of the router specification.                                 *)
(***************************************************************************)
\* a route path with a ':name' segment against a path: every parameter
\* segment stands for a non-empty value, every other segment for itself
ParamSegment(s) == Len(s) > 1 /\ SubSeq(s, 1, 1) = ":"
HasParam(routePath) ==
    \E i \in 1..Len(split(CleanPath(routePath), "/")) :
        ParamSegment(split(CleanPath(routePath), "/")[i])
Covers(routePath, path) ==
    LET ps == split(CleanPath(routePath), "/")
        xs == split(CleanPath(path), "/")
    IN  /\ Len(ps) = Len(xs)
        /\ \A i \in 1..Len(ps) :
              IF ParamSegment(ps[i]) THEN xs[i] # "" ELSE ps[i] = xs[i]
ParamsOf(routePath, path) ==
    LET ps == split(CleanPath(routePath), "/")
        xs == split(CleanPath(path), "/")
        at == {i \in 1..Len(ps) : ParamSegment(ps[i])}
    IN  [name \in {SubSeq(ps[i], 2, Len(ps[i])) : i \in at} |->
            xs[CHOOSE i \in at : SubSeq(ps[i], 2, Len(ps[i])) = name]]

\* C28: when the only route registered is one registered with
\* registerRoute under a path with a ':name' segment, a navigation to a
\* path with a non-empty value in that segment renders that route's
\* component with the value as parameter.
C28_RegisterRouteMatchesParams ==
    (/\ routerLog.op = "navigateTo"
     /\ routerLog.pushed
     /\ router.container = "#app"
     /\ Len(router.registered) = 1
     /\ router.registered[1].by = "registerRoute"
     /\ HasParam(router.registered[1].path)
     /\ Covers(router.registered[1].path, routerLog.path)) =>
        /\ routerLog.rendered # NotRendered
        /\ routerLog.rendered.component = router.registered[1].component
        /\ routerLog.rendered.params =
               ParamsOf(router.registered[1].path, routerLog.path)
        /\ Len(routerHost.childNodes) = 1
        /\ HostView(routerHost.childNodes[1]) =
               HostView(render(Page(router.registered[1].component,
                                    ParamsOf(router.registered[1].path,
                                             routerLog.path))))

\* the same for a route registered with registerParamRoute, which holds
C28_RegisterParamRouteMatchesParams ==
    (/\ routerLog.op = "navigateTo"
     /\ routerLog.pushed
     /\ router.container = "#app"
     /\ Len(router.registered) = 1
     /\ router.registered[1].by = "registerParamRoute"
     /\ HasParam(router.registered[1].path)
     /\ Covers(router.registered[1].path, routerLog.path)) =>
        /\ routerLog.rendered # NotRendered
        /\ routerLog.rendered.component = router.registered[1].component
        /\ routerLog.rendered.params =
               ParamsOf(router.registered[1].path, routerLog.path)

(***************************************************************************)
(* Properties of the children specification.                               *)
(***************************************************************************)
StepRank(op) == IF op = "update" THEN 1 ELSE IF op = "append" THEN 2 ELSE 3

\* C30: within one children patch the positional update, text and replace
\* operations are applied first, then the appends, then the removals in
\* descending index order; each positional operation acts on the host child
\* that was at its index, each removal of index i removes the host child
\* that was at index i before the patch, nothing else is touched, and the
\* number of host children afterwards is the number of children of the new
\* tree.
C30_ChildrenPatchOrder ==
    patchLog.op = "children" =>
        LET applied == patchLog.applied
            before == patchLog.before
            patches == patchLog.patches
            after == hostParent.childNodes
            positional == {i \in 1..Len(patches) :
                              patches[i].type \in {"UPDATE", "TEXT", "REPLACE"}}
            removed == {i \in 1..Len(patches) : patches[i].type = "REMOVE_CHILD"}
        IN  /\ \A i, j \in 1..Len(applied) :
                  i < j => /\ StepRank(applied[i].op) <= StepRank(applied[j].op)
                           /\ (applied[i].op = "remove" /\ applied[j].op = "remove")
                                  => applied[i].index > applied[j].index
            /\ \A i \in positional :
                  \E s \in 1..Len(applied) :
                      /\ applied[s] = [op |-> "update", index |-> i - 1,
                                       target |-> before[i].id]
                      /\ after[i].node = patch(before[i].node, patches[i], TRUE)
                      /\ (patches[i].type = "REPLACE") = (after[i].id # before[i].id)
            /\ \A i \in removed :
                  /\ \E s \in 1..Len(applied) :
                        applied[s] = [op |-> "remove", index |-> patches[i].index,
                                      target |-> before[patches[i].index + 1].id]
                  /\ before[patches[i].index + 1].id \notin NodeIds(after)
            /\ Cardinality({s \in 1..Len(applied) : applied[s].op = "update"})
                   = Cardinality(positional)
            /\ Cardinality({s \in 1..Len(applied) : applied[s].op = "remove"})
                   = Cardinality(removed)
            /\ \A i \in 1..Len(before) :
                  (i \notin positional /\ i \notin {patches[r].index + 1 : r \in removed})
                      => after[i] = before[i]
            /\ Len(after) = Len(hostParent.rendered)

\* a patch with a positional operation and two removals was applied
C30_Witness ==
    /\ patchLog.op = "children"
    /\ Len(patchLog.applied) = 3
    /\ patchLog.applied[1].op = "update"
    /\ patchLog.applied[2] = [op |-> "remove", index |-> 2, target |-> 3]
    /\ patchLog.applied[3] = [op |-> "remove", index |-> 1, target |-> 2]
    /\ Len(hostParent.childNodes) = 1

\* a patch with a positional operation and an append was applied
C30_WitnessAppend ==
    /\ patchLog.op = "children"
    /\ \E s, t \in 1..Len(patchLog.applied) :
          patchLog.applied[s].op = "update" /\ patchLog.applied[t].op = "append"

(***************************************************************************)
(* Properties of the attribute specification.                              *)
(***************************************************************************)
\* C31: applying an object-valued style attribute gives the inline-style
\* properties the object names the values it gives them and leaves every
\* other inline-style property, and everything else of the element, as it
\* was.
C31_StyleMerges ==
    (attrLog.op = "set" /\ attrLog.key = "style" /\ attrLog.value.k = "object") =>
        LET named == DOMAIN attrLog.value.props
            before == attrLog.before
        IN  /\ DOMAIN attrEl.style = DOMAIN before.style \cup named
            /\ \A property \in DOMAIN before.style \ named :
                  attrEl.style[property] = before.style[property]
            /\ \A property \in named :
                  attrEl.style[property] = StringOf(attrLog.value.props[property])
            /\ [attrEl EXCEPT !.style = before.style] = before

\* a style object naming background was applied to an element whose inline
\* style had color
C31_Witness ==
    /\ attrLog.op = "set"
    /\ attrLog.key = "style"
    /\ attrLog.value = StyleBlue
    /\ "color" \in DOMAIN attrLog.before.style
    /\ "color" \in DOMAIN attrEl.style
    /\ "background" \in DOMAIN attrEl.style

\* the event type an on-prefixed key derives
DerivedType(key) == toLowerCase(SubSeq(key, 3, Len(key)))
OnPrefixed(key) == Len(key) >= 2 /\ SubSeq(key, 1, 2) = "on"

\* C32: on an element whose handlers all come from on-prefixed attributes,
\* at most one handler is attached per derived event type; after a function
\* value was applied for a key the handler of its type is that function and
\* no other, and after the key was removed no handler and no listener of
\* its type is left.
C32_OneAttributeHandlerPerType ==
    /\ \A t \in DOMAIN attrEl.handlers : Len(attrEl.handlers[t]) <= 1
    /\ (attrLog.op = "set" /\ OnPrefixed(attrLog.key) /\ attrLog.value.k = "function") =>
          MasterInvokes(attrEl, "on" \o DerivedType(attrLog.key)) = <<attrLog.value>>
    /\ (attrLog.op = "remove" /\ OnPrefixed(attrLog.key)) =>
          /\ DerivedType(attrLog.key) \notin DOMAIN attrEl.handlers
          /\ ("on" \o DerivedType(attrLog.key)) \notin DOMAIN attrEl.on

\* a second function was applied for the click type while the first was
\* attached
C32_Witness ==
    /\ attrLog.op = "set"
    /\ attrLog.key = "onclick"
    /\ attrLog.value = Fn(2)
    /\ MasterInvokes(attrLog.before, "onclick") = <<Fn(1)>>
    /\ MasterInvokes(attrEl, "onclick") = <<Fn(2)>>

\* C33: the remover applied for a key right after the setter was applied
\* for that key leaves nothing of what the setter introduced: no class, none
\* of the inline-style properties and data entries of the object, not the
\* handler, not the attribute.
C33_RemoverInvertsSetter ==
    (attrLog.op = "remove" /\ attrLog.set # NoValue) =>
        LET key == attrLog.key
            value == attrLog.set.value
        IN  /\ key = "className" => attrEl.className = ""
            /\ (key = "style" /\ value.k = "object") =>
                  \A property \in DOMAIN value.props : property \notin DOMAIN attrEl.style
            /\ (key = "data" /\ value.k = "object") =>
                  \A entry \in DOMAIN value.props : entry \notin DOMAIN attrEl.dataset
            /\ (OnPrefixed(key) /\ value.k = "function") =>
                  \A i \in 1..Len(MasterInvokes(attrEl, "on" \o DerivedType(key))) :
                      MasterInvokes(attrEl, "on" \o DerivedType(key))[i] # value
            /\ (key \notin {"className", "style", "data"} /\ ~OnPrefixed(key)) =>
                  key \notin DOMAIN attrEl.attributes

\* the same without the data key, which holds
C33_RemoverInvertsSetterButData ==
    (attrLog.op = "remove" /\ attrLog.set # NoValue /\ attrLog.key # "data") =>
        C33_RemoverInvertsSetter

(***************************************************************************)
(* Properties of the key specification.                                    *)
(***************************************************************************)
\* the position of the first colon of a key
FirstColon(key) ==
    CHOOSE i \in 1..Len(key) :
        /\ SubSeq(key, i, i) = ":"
        /\ \A j \in 1..(i - 1) : SubSeq(key, j, j) # ":"

\* what a key 'type:selector' says: the trimmed text before the first colon
\* and the whole trimmed remainder
WrittenType(key) == trim(SubSeq(key, 1, FirstColon(key) - 1))
WrittenSelector(key) == trim(SubSeq(key, FirstColon(key) + 1, Len(key)))

\* the calls of user handlers a fire made, in order
RECURSIVE CallsOf(_)
CallsOf(invoked) ==
    IF Len(invoked) = 0 THEN <<>>
    ELSE Head(invoked).calls \o CallsOf(Tail(invoked))

\* the calls the entries of an event map ask for when an event of type t
\* fires at origin: one per entry of that type whose written selector has
\* a nearest match inside the container
RECURSIVE WrittenCalls(_, _, _)
WrittenCalls(eventMap, t, origin) ==
    IF Len(eventMap) = 0 THEN <<>>
    ELSE LET entry == Head(eventMap)
             target == closest(origin, WrittenSelector(entry.key))
         IN  (IF /\ WrittenType(entry.key) = t
                 /\ target # "null"
                 /\ contains("box", target)
              THEN <<HandlerCall(entry.value, target, target)>>
              ELSE <<>>)
             \o WrittenCalls(Tail(eventMap), t, origin)

\* C34: every key 'type:selector' of a registerEvents call is registered
\* with the trimmed text before its first colon as event type and the whole
\* trimmed remainder as selector: an event on the container calls the
\* handlers of exactly the entries whose written selector matches.
C34_KeyRegistersWrittenSelector ==
    /\ delegLog.op = "register" =>
          \A i \in 1..Len(registrations[1].eventMap) :
              /\ registrations[1].cleanups[i].eventType =
                     WrittenType(registrations[1].eventMap[i].key)
              /\ registrations[1].cleanups[i].handler.selector =
                     WrittenSelector(registrations[1].eventMap[i].key)
    /\ (delegLog.op = "fire" /\ Len(registrations) = 1 /\ registrations[1].cleaned = 0) =>
          CallsOf(delegLog.invoked) =
              WrittenCalls(registrations[1].eventMap, delegLog.type, delegLog.origin)

\* the same for the keys that hold one colon, which holds
C34_OneColonKeyRegistersWrittenSelector ==
    (/\ Len(registrations) = 1
     /\ \A i \in 1..Len(registrations[1].eventMap) :
           Len(split(registrations[1].eventMap[i].key, ":")) = 2)
        => C34_KeyRegistersWrittenSelector

(***************************************************************************)
(* Properties of the discard specification.                                *)
(***************************************************************************)
\* the children the last patch took out of the parent: those of before
\* whose id the parent no longer holds.  replaceChild and removeChild take
\* a node out of the tree and leave the node itself as it is.
Discarded ==
    SelectSeq(patchLog.before,
              LAMBDA child : child.id \notin NodeIds(hostParent.childNodes))

\* a host node or one of its descendants still carries a handler: a set of
\* handlers in the registry, an on-property (the physical listener) or a
\* recorded attribute handler
RECURSIVE Listens(_)
Listens(node) ==
    /\ node.nodeType = "element"
    /\ \/ DOMAIN node.handlers # {}
       \/ DOMAIN node.on # {}
       \/ DOMAIN node.eventHandlers # {}
       \/ \E i \in 1..Len(node.childNodes) : Listens(node.childNodes[i])

\* C35: after a patch replaced or removed a host element, no handler that
\* came from an on-prefixed attribute is left on the discarded element or on
\* a descendant of it: no physical listener and no registry entry.
C35_DiscardedDetached ==
    patchLog.op \in {"patch", "children"} =>
        \A i \in 1..Len(Discarded) : ~Listens(Discarded[i].node)

\* a patch that keeps the element and drops its on-prefixed attribute does
\* detach the handler
C35_KeptElementDetached ==
    (/\ patchLog.op = "patch"
     /\ patchLog.patches.type = "UPDATE"
     /\ hostParent.rendered[patchLog.index] = createElement("li", <<>>, Str("a")))
        => ~Listens(hostParent.childNodes[patchLog.index].node)

\* the element that lost its attribute carried a handler before
C35_KeptWitness ==
    /\ patchLog.op = "patch"
    /\ patchLog.patches.type = "UPDATE"
    /\ hostParent.rendered[patchLog.index] = createElement("li", <<>>, Str("a"))
    /\ Listens(patchLog.before[patchLog.index].node)

(***************************************************************************)
(* Properties of the navigation specification.                             *)
(***************************************************************************)
\* the step is a call navigateTo(p)
NavigateStep == routerLog'.op = "navigateTo" /\ routerLog'.n = routerLog.n + 1

\* the call of NavigateStep pushed nothing and rendered nothing
NavigateNoOp ==
    /\ ~routerLog'.pushed
    /\ routerLog'.rendered = NotRendered
    /\ location' = location
    /\ routerHost' = routerHost

\* C36: navigateTo(p) when the location already is p pushes no history entry
\* and renders nothing; so the second of two consecutive calls navigateTo(p)
\* pushes nothing and renders nothing.
C36_NavigateToIdempotent ==
    [][NavigateStep =>
          /\ location.pathname = CleanPath(routerLog'.path) => NavigateNoOp
          /\ (routerLog.op = "navigateTo" /\ routerLog.path = routerLog'.path)
                => NavigateNoOp]_vars

\* the same for the paths that are pathnames, which holds
C36_NavigateToPathnameIdempotent ==
    [][(NavigateStep /\ Pathname(routerLog'.path) = routerLog'.path) =>
          /\ location.pathname = CleanPath(routerLog'.path) => NavigateNoOp
          /\ (routerLog.op = "navigateTo" /\ routerLog.path = routerLog'.path)
                => NavigateNoOp]_vars

\* the second of two consecutive calls for one path did nothing, after the
\* first pushed an entry and rendered the page of the route
C36_PathnameWitness ==
    /\ routerLog.op = "navigateTo"
    /\ ~routerLog.pushed
    /\ location.pathname = "/user/123"
    /\ location.entries = 2
    /\ Truthy(routerHost.currentVNode)

(***************************************************************************)
(* Properties of the event specification: spellings of one event type.     *)
(***************************************************************************)
\* the handlers the host invokes when an event of type t fires on e: those
\* the element's on<type> property calls
InvokedOnEvent(e, t) ==
    LET hs == MasterInvokes(elements[e], "on" \o toLowerCase(t))
    IN  {hs[i] : i \in 1..Len(hs)}

\* C37: the handlers attached to one element under event-type strings that
\* differ only in letter case are all invoked when the event fires on the
\* element, and detaching one of them leaves the others invoked: every
\* handler attached and not detached, under whichever spelling, is among the
\* handlers the event invokes.
C37_CaseVariantsAllInvoked ==
    calls # NoValue =>
        \A e \in ElementIds, t \in EventTypes :
            DistinctHandlers(e, t) =>
                PendingHandlers(e, t) \subseteq InvokedOnEvent(e, t)

\* the same for an element whose calls used one spelling per event type,
\* which holds
C37_OneSpellingAllInvoked ==
    calls # NoValue =>
        \A e \in ElementIds, t \in EventTypes :
            (DistinctHandlers(e, t) /\ SamePair(e, t)) =>
                PendingHandlers(e, t) \subseteq InvokedOnEvent(e, t)

(***************************************************************************)
(* Properties of the alias specification.                                  *)
(***************************************************************************)
\* what getState() returns: the entries of the state object
StateOfStore(objects) == objects.heap[1]

\* C38: the state of a store changes only through setState and updateState:
\* a step that changes what getState() returns is a call of one of the two;
\* no write through the value getState() returned or through the value a
\* subscriber was handed changes it.
C38_StateChangesOnlyThroughStore ==
    [][StateOfStore(aliasStore') # StateOfStore(aliasStore) =>
          aliasLog'.op \in {"setState", "updateState"}]_vars

\* the same for the value getState() returned, which holds: a write to it
\* leaves the state as it is
C38_CopyDoesNotAlias ==
    [][(aliasLog'.op = "write" /\ aliasLog'.from = "getState") =>
          StateOfStore(aliasStore') = StateOfStore(aliasStore)]_vars

\* a write to the object getState() returned changed that object
C38_CopyWitness ==
    /\ aliasLog.op = "write"
    /\ aliasLog.from = "getState"
    /\ \E i \in 2..Len(aliasStore.heap) : aliasStore.heap[i] # aliasStore.heap[1]

(***************************************************************************)
(* Properties of the to-do specification.                                  *)
(***************************************************************************)
\* editingId is null or the id of a todo of the list
EditingIdPresent ==
    \/ todoStore.editingId = Null
    \/ \E i \in 1..Len(todoStore.todos.items) :
          Num(todoStore.todos.items[i].id) = todoStore.editingId

C40_AbsentOnlyAfterAbortedReset ==
    (todoStore # NoValue /\ ~EditingIdPresent) =>
        todoLog.aborted \cap {"clearAllTodos", "resetToDefaults"} # {}

\* deleteTodo and clearCompleted were called on the todo being edited and
\* left editingId null
C40_DeleteWitness ==
    /\ todoLog # NoValue
    /\ todoLog.op \in {"deleteTodo", "clearCompleted"}
    /\ todoLog.outcome # "returned"
    /\ todoStore.editingId = Null
    /\ todoLog.n = 3

(***************************************************************************)
(* Specifications.                                                         *)
(***************************************************************************)
InitDiff ==
    /\ DiffStart
    /\ PatchIdle
    /\ MountIdle
    /\ EventIdle
    /\ DispatchIdle
    /\ StoreIdle
    /\ BusIdle
    /\ ComponentIdle
    /\ DelegateIdle
    /\ PatchAtIdle
    /\ ThrottleIdle
    /\ RouterIdle
    /\ AttrIdle
    /\ AliasIdle
    /\ TodoIdle
InitPatch ==
    /\ DiffIdle
    /\ PatchStart
    /\ MountIdle
    /\ EventIdle
    /\ DispatchIdle
    /\ StoreIdle
    /\ BusIdle
    /\ ComponentIdle
    /\ DelegateIdle
    /\ PatchAtIdle
    /\ ThrottleIdle
    /\ RouterIdle
    /\ AttrIdle
    /\ AliasIdle
    /\ TodoIdle
InitMount ==
    /\ DiffIdle
    /\ PatchIdle
    /\ MountStart
    /\ EventIdle
    /\ DispatchIdle
    /\ StoreIdle
    /\ BusIdle
    /\ ComponentIdle
    /\ DelegateIdle
    /\ PatchAtIdle
    /\ ThrottleIdle
    /\ RouterIdle
    /\ AttrIdle
    /\ AliasIdle
    /\ TodoIdle
InitEvents ==
    /\ DiffIdle
    /\ PatchIdle
    /\ MountIdle
    /\ EventStart
    /\ DispatchIdle
    /\ StoreIdle
    /\ BusIdle
    /\ ComponentIdle
    /\ DelegateIdle
    /\ PatchAtIdle
    /\ ThrottleIdle
    /\ RouterIdle
    /\ AttrIdle
    /\ AliasIdle
    /\ TodoIdle
InitDispatch ==
    /\ DiffIdle
    /\ PatchIdle
    /\ MountIdle
    /\ EventIdle
    /\ DispatchStart
    /\ StoreIdle
    /\ BusIdle
    /\ ComponentIdle
    /\ DelegateIdle
    /\ PatchAtIdle
    /\ ThrottleIdle
    /\ RouterIdle
    /\ AttrIdle
    /\ AliasIdle
    /\ TodoIdle
InitStore ==
    /\ DiffIdle
    /\ PatchIdle
    /\ MountIdle
    /\ EventIdle
    /\ DispatchIdle
    /\ StoreStart
    /\ BusIdle
    /\ ComponentIdle
    /\ DelegateIdle
    /\ PatchAtIdle
    /\ ThrottleIdle
    /\ RouterIdle
    /\ AttrIdle
    /\ AliasIdle
    /\ TodoIdle
InitBus ==
    /\ DiffIdle
    /\ PatchIdle
    /\ MountIdle
    /\ EventIdle
    /\ DispatchIdle
    /\ StoreIdle
    /\ BusStart
    /\ ComponentIdle
    /\ DelegateIdle
    /\ PatchAtIdle
    /\ ThrottleIdle
    /\ RouterIdle
    /\ AttrIdle
    /\ AliasIdle
    /\ TodoIdle
InitComponent ==
    /\ DiffIdle
    /\ PatchIdle
    /\ MountIdle
    /\ EventIdle
    /\ DispatchIdle
    /\ StoreIdle
    /\ BusIdle
    /\ ComponentStart
    /\ DelegateIdle
    /\ PatchAtIdle
    /\ ThrottleIdle
    /\ RouterIdle
    /\ AttrIdle
    /\ AliasIdle
    /\ TodoIdle
InitDelegate ==
    /\ DiffIdle
    /\ PatchIdle
    /\ MountIdle
    /\ EventIdle
    /\ DispatchIdle
    /\ StoreIdle
    /\ BusIdle
    /\ ComponentIdle
    /\ DelegateStart
    /\ PatchAtIdle
    /\ ThrottleIdle
    /\ RouterIdle
    /\ AttrIdle
    /\ AliasIdle
    /\ TodoIdle
InitRegister ==
    /\ DiffIdle
    /\ PatchIdle
    /\ MountIdle
    /\ EventIdle
    /\ DispatchIdle
    /\ StoreIdle
    /\ BusIdle
    /\ ComponentIdle
    /\ RegisterStart
    /\ PatchAtIdle
    /\ ThrottleIdle
    /\ RouterIdle
    /\ AttrIdle
    /\ AliasIdle
    /\ TodoIdle
InitKeys ==
    /\ DiffIdle
    /\ PatchIdle
    /\ MountIdle
    /\ EventIdle
    /\ DispatchIdle
    /\ StoreIdle
    /\ BusIdle
    /\ ComponentIdle
    /\ KeysStart
    /\ PatchAtIdle
    /\ ThrottleIdle
    /\ RouterIdle
    /\ AttrIdle
    /\ AliasIdle
    /\ TodoIdle
InitPatchAt ==
    /\ DiffIdle
    /\ PatchIdle
    /\ MountIdle
    /\ EventIdle
    /\ DispatchIdle
    /\ StoreIdle
    /\ BusIdle
    /\ ComponentIdle
    /\ DelegateIdle
    /\ PatchAtStart
    /\ ThrottleIdle
    /\ RouterIdle
    /\ AttrIdle
    /\ AliasIdle
    /\ TodoIdle
InitChildren ==
    /\ DiffIdle
    /\ PatchIdle
    /\ MountIdle
    /\ EventIdle
    /\ DispatchIdle
    /\ StoreIdle
    /\ BusIdle
    /\ ComponentIdle
    /\ DelegateIdle
    /\ ChildrenStart
    /\ ThrottleIdle
    /\ RouterIdle
    /\ AttrIdle
    /\ AliasIdle
    /\ TodoIdle
InitDiscard ==
    /\ DiffIdle
    /\ PatchIdle
    /\ MountIdle
    /\ EventIdle
    /\ DispatchIdle
    /\ StoreIdle
    /\ BusIdle
    /\ ComponentIdle
    /\ DelegateIdle
    /\ DiscardStart
    /\ ThrottleIdle
    /\ RouterIdle
    /\ AttrIdle
    /\ AliasIdle
    /\ TodoIdle
InitThrottle ==
    /\ DiffIdle
    /\ PatchIdle
    /\ MountIdle
    /\ EventIdle
    /\ DispatchIdle
    /\ StoreIdle
    /\ BusIdle
    /\ ComponentIdle
    /\ DelegateIdle
    /\ PatchAtIdle
    /\ ThrottleStart
    /\ RouterIdle
    /\ AttrIdle
    /\ AliasIdle
    /\ TodoIdle
InitRouter ==
    /\ DiffIdle
    /\ PatchIdle
    /\ MountIdle
    /\ EventIdle
    /\ DispatchIdle
    /\ StoreIdle
    /\ BusIdle
    /\ ComponentIdle
    /\ DelegateIdle
    /\ PatchAtIdle
    /\ ThrottleIdle
    /\ RouterStart
    /\ AttrIdle
    /\ AliasIdle
    /\ TodoIdle
InitNavigate ==
    /\ DiffIdle
    /\ PatchIdle
    /\ MountIdle
    /\ EventIdle
    /\ DispatchIdle
    /\ StoreIdle
    /\ BusIdle
    /\ ComponentIdle
    /\ DelegateIdle
    /\ PatchAtIdle
    /\ ThrottleIdle
    /\ NavigateStart
    /\ AttrIdle
    /\ AliasIdle
    /\ TodoIdle
InitAttr ==
    /\ DiffIdle
    /\ PatchIdle
    /\ MountIdle
    /\ EventIdle
    /\ DispatchIdle
    /\ StoreIdle
    /\ BusIdle
    /\ ComponentIdle
    /\ DelegateIdle
    /\ PatchAtIdle
    /\ ThrottleIdle
    /\ RouterIdle
    /\ AttrStart
    /\ AliasIdle
    /\ TodoIdle
InitAlias ==
    /\ DiffIdle
    /\ PatchIdle
    /\ MountIdle
    /\ EventIdle
    /\ DispatchIdle
    /\ StoreIdle
    /\ BusIdle
    /\ ComponentIdle
    /\ DelegateIdle
    /\ PatchAtIdle
    /\ ThrottleIdle
    /\ RouterIdle
    /\ AttrIdle
    /\ AliasStart
    /\ TodoIdle
InitTodo ==
    /\ DiffIdle
    /\ PatchIdle
    /\ MountIdle
    /\ EventIdle
    /\ DispatchIdle
    /\ StoreIdle
    /\ BusIdle
    /\ ComponentIdle
    /\ DelegateIdle
    /\ PatchAtIdle
    /\ ThrottleIdle
    /\ RouterIdle
    /\ AttrIdle
    /\ AliasIdle
    /\ TodoStart

NextDiff ==
    /\ DiffNext
    /\ UNCHANGED <<patchVars, mountVars, eventVars, dispatchVars, storeVars,
                   busVars, componentVars, delegateVars, patchAtVars, throttleVars,
                   routerVars, attrVars, aliasVars, todoVars>>
NextPatch ==
    /\ PatchNext
    /\ UNCHANGED <<diffVars, mountVars, eventVars, dispatchVars, storeVars,
                   busVars, componentVars, delegateVars, patchAtVars, throttleVars,
                   routerVars, attrVars, aliasVars, todoVars>>
NextMount ==
    /\ MountNext
    /\ UNCHANGED <<diffVars, patchVars, eventVars, dispatchVars, storeVars,
                   busVars, componentVars, delegateVars, patchAtVars, throttleVars,
                   routerVars, attrVars, aliasVars, todoVars>>
NextEvents ==
    /\ EventNext
    /\ UNCHANGED <<diffVars, patchVars, mountVars, dispatchVars, storeVars,
                   busVars, componentVars, delegateVars, patchAtVars, throttleVars,
                   routerVars, attrVars, aliasVars, todoVars>>
NextDispatch ==
    /\ DispatchNext
    /\ UNCHANGED <<diffVars, patchVars, mountVars, eventVars, storeVars,
                   busVars, componentVars, delegateVars, patchAtVars, throttleVars,
                   routerVars, attrVars, aliasVars, todoVars>>
NextStore ==
    /\ StoreNext
    /\ UNCHANGED <<diffVars, patchVars, mountVars, eventVars, dispatchVars,
                   busVars, componentVars, delegateVars, patchAtVars, throttleVars,
                   routerVars, attrVars, aliasVars, todoVars>>
NextBus ==
    /\ BusNext
    /\ UNCHANGED <<diffVars, patchVars, mountVars, eventVars, dispatchVars,
                   storeVars, componentVars, delegateVars, patchAtVars, throttleVars,
                   routerVars, attrVars, aliasVars, todoVars>>
NextComponent ==
    /\ ComponentNext
    /\ UNCHANGED <<diffVars, patchVars, mountVars, eventVars, dispatchVars,
                   storeVars, busVars, delegateVars, patchAtVars, throttleVars,
                   routerVars, attrVars, aliasVars, todoVars>>
NextDelegate ==
    /\ DelegateNext
    /\ UNCHANGED <<diffVars, patchVars, mountVars, eventVars, dispatchVars,
                   storeVars, busVars, componentVars, patchAtVars, throttleVars,
                   routerVars, attrVars, aliasVars, todoVars>>
NextRegister ==
    /\ RegisterNext
    /\ UNCHANGED <<diffVars, patchVars, mountVars, eventVars, dispatchVars,
                   storeVars, busVars, componentVars, patchAtVars, throttleVars,
                   routerVars, attrVars, aliasVars, todoVars>>
NextKeys ==
    /\ KeysNext
    /\ UNCHANGED <<diffVars, patchVars, mountVars, eventVars, dispatchVars,
                   storeVars, busVars, componentVars, patchAtVars, throttleVars,
                   routerVars, attrVars, aliasVars, todoVars>>
NextPatchAt ==
    /\ PatchAtNext
    /\ UNCHANGED <<diffVars, patchVars, mountVars, eventVars, dispatchVars,
                   storeVars, busVars, componentVars, delegateVars, throttleVars,
                   routerVars, attrVars, aliasVars, todoVars>>
NextChildren ==
    /\ ChildrenNext
    /\ UNCHANGED <<diffVars, patchVars, mountVars, eventVars, dispatchVars,
                   storeVars, busVars, componentVars, delegateVars, throttleVars,
                   routerVars, attrVars, aliasVars, todoVars>>
NextDiscard ==
    /\ DiscardNext
    /\ UNCHANGED <<diffVars, patchVars, mountVars, eventVars, dispatchVars,
                   storeVars, busVars, componentVars, delegateVars, throttleVars,
                   routerVars, attrVars, aliasVars, todoVars>>
NextThrottle ==
    /\ ThrottleNext
    /\ UNCHANGED <<diffVars, patchVars, mountVars, eventVars, dispatchVars,
                   storeVars, busVars, componentVars, delegateVars, patchAtVars,
                   routerVars, attrVars, aliasVars, todoVars>>
NextRouter ==
    /\ RouterNext
    /\ UNCHANGED <<diffVars, patchVars, mountVars, eventVars, dispatchVars,
                   storeVars, busVars, componentVars, delegateVars, patchAtVars,
                   throttleVars, attrVars, aliasVars, todoVars>>
NextNavigate ==
    /\ NavigateNext
    /\ UNCHANGED <<diffVars, patchVars, mountVars, eventVars, dispatchVars,
                   storeVars, busVars, componentVars, delegateVars, patchAtVars,
                   throttleVars, attrVars, aliasVars, todoVars>>
NextAttr ==
    /\ AttrNext
    /\ UNCHANGED <<diffVars, patchVars, mountVars, eventVars, dispatchVars,
                   storeVars, busVars, componentVars, delegateVars, patchAtVars,
                   throttleVars, routerVars, aliasVars, todoVars>>
NextAlias ==
    /\ AliasNext
    /\ UNCHANGED <<diffVars, patchVars, mountVars, eventVars, dispatchVars,
                   storeVars, busVars, componentVars, delegateVars, patchAtVars,
                   throttleVars, routerVars, attrVars, todoVars>>
NextTodo ==
    /\ TodoNext
    /\ UNCHANGED <<diffVars, patchVars, mountVars, eventVars, dispatchVars,
                   storeVars, busVars, componentVars, delegateVars, patchAtVars,
                   throttleVars, routerVars, attrVars, aliasVars>>

SpecDiff == InitDiff /\ [][NextDiff]_vars
SpecPatch == InitPatch /\ [][NextPatch]_vars
SpecMount == InitMount /\ [][NextMount]_vars
SpecEvents == InitEvents /\ [][NextEvents]_vars
SpecDispatch == InitDispatch /\ [][NextDispatch]_vars
SpecStore == InitStore /\ [][NextStore]_vars
SpecBus == InitBus /\ [][NextBus]_vars
SpecComponent == InitComponent /\ [][NextComponent]_vars
SpecDelegate == InitDelegate /\ [][NextDelegate]_vars
SpecRegister == InitRegister /\ [][NextRegister]_vars
SpecKeys == InitKeys /\ [][NextKeys]_vars
SpecPatchAt == InitPatchAt /\ [][NextPatchAt]_vars
SpecChildren == InitChildren /\ [][NextChildren]_vars
SpecDiscard == InitDiscard /\ [][NextDiscard]_vars
SpecThrottle == InitThrottle /\ [][NextThrottle]_vars
SpecRouter == InitRouter /\ [][NextRouter]_vars
SpecNavigate == InitNavigate /\ [][NextNavigate]_vars
SpecAttr == InitAttr /\ [][NextAttr]_vars
SpecAlias == InitAlias /\ [][NextAlias]_vars
SpecTodo == InitTodo /\ [][NextTodo]_vars

Init ==
    \/ InitDiff
    \/ InitPatch
    \/ InitMount
    \/ InitEvents
    \/ InitDispatch
    \/ InitStore
    \/ InitBus
    \/ InitComponent
    \/ InitDelegate
    \/ InitRegister
    \/ InitKeys
    \/ InitPatchAt
    \/ InitChildren
    \/ InitDiscard
    \/ InitThrottle
    \/ InitRouter
    \/ InitNavigate
    \/ InitAttr
    \/ InitAlias
    \/ InitTodo
Next ==
    \/ NextDiff
    \/ NextPatch
    \/ NextMount
    \/ NextEvents
    \/ NextDispatch
    \/ NextStore
    \/ NextBus
    \/ NextComponent
    \/ NextDelegate
    \/ NextRegister
    \/ NextKeys
    \/ NextPatchAt
    \/ NextChildren
    \/ NextDiscard
    \/ NextThrottle
    \/ NextRouter
    \/ NextNavigate
    \/ NextAttr
    \/ NextAlias
    \/ NextTodo
Spec == Init /\ [][Next]_vars

====
